---------------------------- MODULE Spec2Model ----------------------------
(***************************************************************************)
(* State-machine model of the ss.lv harvesting pipeline                    *)
(* (src/src/data_collection/ss_lv_scraper.py): get_page, load_existing_urls,*)
(* collect_urls_for_category, scrape_job_detail and run_scraper, together  *)
(* with the environment they run in (the remote site, the transport, the   *)
(* output file with its write buffer, and process kills).                  *)
(*                                                                         *)
(* Specifications                                                          *)
(*   Spec         run_scraper, run repeatedly, with arbitrary server       *)
(*                answers, arbitrary transport failures and kills          *)
(*   SpecResume   run_scraper run repeatedly against one unchanging site,  *)
(*                no kills                                                 *)
(*   SpecCollect  collect_urls_for_category against an arbitrary server    *)
(*   SpecGetPage  get_page(url, retries) against a scripted transport      *)
(***************************************************************************)
EXTENDS Integers, Sequences, FiniteSets, TLC

(***************************************************************************)
(* Bounds of the model.  MAX_PAGES is 7 and JOB_CATEGORIES has 23 entries  *)
(* in the source; the model scales both down, and nothing below depends on *)
(* their particular values.                                                *)
(***************************************************************************)
MAX_PAGES == 3
NumCategories == 2
NumKeys == 3
MaxLinks == 2
NumSiteKeys == 2
MaxSiteLinks == 1
MaxRuns == 3
MaxRetries == 4
NumMergeUrls == 2
MaxRows == 2
NumCvIds == 2
LIMIT == 1
MaxCvTotal == 2
NumLikeIds == 1
MaxLikeJobs == 2
MaxLikePages == 3
NumFixUrls == 2
MaxFixRows == 2
NumVdIds == 1
MaxVdCards == 1
MaxVdPages == 3
cnt_max_pages == 3
MaxJobRows == 4
MaxSalText == 4

\* get_page's default retry budget (def get_page(url, retries=3)).
DEFAULT_RETRIES == 3
PER_PAGE == 17

VARIABLES
    \* ---- durable state -------------------------------------------------
    fileExists,       \* os.path.exists(OUTPUT_FILE)
    file,             \* lines of OUTPUT_FILE that reached the disk
    \* ---- environment ---------------------------------------------------
    site,             \* SpecResume: the unchanging listing pages
    runs,             \* number of run_scraper processes started so far
    \* ---- the run_scraper process ---------------------------------------
    pc,               \* control point
    existing_urls,    \* run_scraper: existing_urls
    buf,              \* lines written to csv_file and not yet flushed
    cat,              \* index of the category being processed
    new_urls,         \* run_scraper: new_urls
    j,                \* detail loop: number of new_urls already handled
    cat_success, cat_failed, total_new,
    \* ---- collect_urls_for_category -------------------------------------
    page_num,         \* loop variable
    urls,             \* result list
    seen_on_this_run, \* set behind the list
    \* ---- observation of the last steps (history) -----------------------
    reqPages,         \* listing pages requested by the current walk, in order
    lastSoup,         \* answer to the walk's last listing request
    prevUrls,         \* urls as it was before that request
    walkEnd,          \* why the current walk ended
    lastDetail,       \* the last detail request of the stage and its outcome
    stageKnown,       \* existing_urls when the current detail stage started
    killed,           \* what the last kill interrupted
    cleanRun,         \* no fetch of the current run has failed so far
    prevClean,        \* the previous run ran to completion without a failed fetch
    \* ---- get_page on its own -------------------------------------------
    gp_transport, gp_retries, gp_result,
    \* ---- merge_and_save on its own (build_master_dataset.py) -----------
    ss_rows, cv_rows, unique_rows,
    \* ---- the network events of a run (history) --------------------------
    lastFetch,        \* the last get_page call of the run and what it left
    sinceRequest,     \* what has happened since the last network request
    listingRequests,  \* requests.get calls of the current category's walk
    detailRequests,   \* requests.get calls for detail pages, by url
    everFailed,       \* the urls whose detail fetch has failed in some run
    \* ---- scrape_all_categories on its own (cv_lv_scraper.py) ------------
    cv_site, cv_all_jobs,
    \* ---- likeIT_lv.py: scrape_all on its own, and one scrape_category ---
    li_site, li_all_jobs,
    li_page, li_seen, li_jobs_out,
    \* ---- scrape_job_detail and fix on one page ---------------------------
    dt_page, dt_answer, dt_row, dt_fix,
    \* ---- fix_ss_lv.py and process_ss_lv ----------------------------------
    fx_input, fx_pages, fx_disk, fx_processed,
    \* ---- VisiDarbi_lv.py: scrape_all -------------------------------------
    vd_server, vd_requested, vd_all_jobs,
    \* ---- scraper/ss_lv_scraper.py: count_pages_for_category --------------
    cnt_page_num, cnt_pages_with_jobs, cnt_answers,
    \* ---- the salary fields of the three site parsers ---------------------
    sal_input, sal_record

vars == << fileExists, file, site, runs, pc, existing_urls, buf, cat, new_urls,
           j, cat_success, cat_failed, total_new, page_num, urls,
           seen_on_this_run, reqPages, lastSoup, prevUrls, walkEnd,
           lastDetail, stageKnown, killed, cleanRun, prevClean, gp_transport, gp_retries, gp_result,
           ss_rows, cv_rows, unique_rows, lastFetch, sinceRequest,
           listingRequests, detailRequests, everFailed,
           cv_site, cv_all_jobs, li_site, li_all_jobs, li_page, li_seen,
           li_jobs_out, dt_page, dt_answer, dt_row, dt_fix, fx_input,
           fx_pages, fx_disk, fx_processed, vd_server, vd_requested, vd_all_jobs,
           cnt_page_num, cnt_pages_with_jobs, cnt_answers, sal_input,
           sal_record >>

fileVars == << fileExists, file >>
runVars  == << existing_urls, buf, cat, new_urls, j, cat_success, cat_failed,
               total_new >>
walkVars == << page_num, urls, seen_on_this_run, reqPages, lastSoup, prevUrls,
               walkEnd >>
histVars == << lastDetail, stageKnown, killed, cleanRun, prevClean >>
gpVars   == << gp_transport, gp_retries, gp_result >>
mergeVars == << ss_rows, cv_rows, unique_rows >>
traceVars == << lastFetch, sinceRequest, listingRequests, detailRequests,
               everFailed >>
cvVars    == << cv_site, cv_all_jobs >>
\* The variables of ss_lv_scraper.py, and those of the other programs.
scraperVars == << fileVars, site, runs, runVars, walkVars, histVars, gpVars,
                 traceVars >>
likeVars  == << li_site, li_all_jobs, li_page, li_seen, li_jobs_out >>
dateVars  == << dt_page, dt_answer, dt_row, dt_fix >>
fixVars   == << fx_input, fx_pages, fx_disk, fx_processed >>
vdVars    == << vd_server, vd_requested, vd_all_jobs >>
cntVars   == << cnt_page_num, cnt_pages_with_jobs, cnt_answers >>
salVars   == << sal_input, sal_record >>
toolVars  == << cntVars, salVars >>
laterVars == << dateVars, fixVars, vdVars, toolVars >>
otherVars == << cvVars, likeVars, laterVars >>

----------------------------------------------------------------------------
(* Generic helpers *)

Range(s) == { s[i] : i \in 1..Len(s) }

SeqsUpTo(S, n) == UNION { [1..m -> S] : m \in 0..n }

Iota(n) == [ i \in 1..n |-> i ]

----------------------------------------------------------------------------
(* Transport and get_page (ss_lv_scraper.py:62-74) *)

\* What one requests.get can do: answer 200, answer 404, answer another
\* status, or raise requests.RequestException (network error, timeout).
Outcomes == { "ok", "notfound", "status", "exc" }

Transports(n) == [1..n -> Outcomes]

\* get_page as it would be if the except branch returned None instead of
\* going on to the next attempt.
RECURSIVE GetPageLoopNoRetry(_, _, _, _)
GetPageLoopNoRetry(transport, retries, attempt, ev) ==
    IF attempt >= retries
    THEN [page |-> 0, requests |-> attempt, events |-> ev]
    ELSE LET o == transport[attempt + 1] IN
         CASE o = "ok" ->
                [page |-> attempt + 1, requests |-> attempt + 1,
                 events |-> Append(ev, "request")]
           [] o = "status" ->
                GetPageLoopNoRetry(transport, retries, attempt + 1,
                                   Append(ev, "request"))
           [] OTHER ->
                [page |-> 0, requests |-> attempt + 1,
                 events |-> Append(ev, "request")]

\* get_page as it would be if a 404 were retried like any other status.
RECURSIVE GetPageLoopRetry404(_, _, _, _)
GetPageLoopRetry404(transport, retries, attempt, ev) ==
    IF attempt >= retries
    THEN [page |-> 0, requests |-> attempt, events |-> ev]
    ELSE LET o == transport[attempt + 1] IN
         CASE o = "ok" ->
                [page |-> attempt + 1, requests |-> attempt + 1,
                 events |-> Append(ev, "request")]
           [] o = "exc" ->
                GetPageLoopRetry404(transport, retries, attempt + 1,
                                    ev \o << "request", "log", "sleep" >>)
           [] OTHER ->
                GetPageLoopRetry404(transport, retries, attempt + 1,
                                    Append(ev, "request"))

\* get_page as it would be if a status other than 200 ended the call.
RECURSIVE GetPageLoopStatusFinal(_, _, _, _)
GetPageLoopStatusFinal(transport, retries, attempt, ev) ==
    IF attempt >= retries
    THEN [page |-> 0, requests |-> attempt, events |-> ev]
    ELSE LET o == transport[attempt + 1] IN
         CASE o = "ok" ->
                [page |-> attempt + 1, requests |-> attempt + 1,
                 events |-> Append(ev, "request")]
           [] o = "exc" ->
                GetPageLoopStatusFinal(transport, retries, attempt + 1,
                                       ev \o << "request", "log", "sleep" >>)
           [] OTHER ->
                [page |-> 0, requests |-> attempt + 1,
                 events |-> Append(ev, "request")]

\* for attempt in range(retries): ...   `attempt` counts from 0 as in the code;
\* ev is the trace of what the call has done so far.
RECURSIVE GetPageLoop(_, _, _, _)
GetPageLoop(transport, retries, attempt, ev) ==
    IF attempt >= retries
    THEN [page |-> 0, requests |-> attempt, events |-> ev]
    ELSE LET o == transport[attempt + 1] IN
         CASE o = "ok" ->
                [page |-> attempt + 1, requests |-> attempt + 1,
                 events |-> Append(ev, "request")]
           [] o = "notfound" ->
                [page |-> 0, requests |-> attempt + 1,
                 events |-> Append(ev, "request")]
           [] o = "status" ->
                GetPageLoop(transport, retries, attempt + 1,
                            Append(ev, "request"))
           [] OTHER ->
                GetPageLoop(transport, retries, attempt + 1,
                            ev \o << "request", "log", "sleep" >>)

\* get_page as it would be if a call that ran out of attempts began again.
GetPageTwice(transport, retries) ==
    LET r == GetPageLoop(transport, retries, 0, << >>) IN
    IF r.page = 0 /\ r.requests = retries
    THEN [r EXCEPT !.requests = 2 * retries, !.events = r.events \o r.events]
    ELSE r

\* page = 0 stands for None; page = i > 0 is the body of the i-th response.
GetPage(transport, retries) == GetPageLoop(transport, retries, 0, << >>)

\* The two things a get_page call with the default budget can hand back.
GotPage(transport) == GetPage(transport, DEFAULT_RETRIES).page # 0

----------------------------------------------------------------------------
(* Listing pages and collect_urls_for_category (ss_lv_scraper.py:90-132) *)

Keys == 1..NumKeys

\* An <a href> of a listing page: <<"rel", k>> is the site-relative job link
\* "/msg/lv/work/are-required/.../k", <<"abs", k>> the same posting written
\* with the host in front, <<"nav", 0>> any other link of the page.  ss.lv
\* writes job links relative; one posting also occurs in the absolute form,
\* so that two different hrefs can name one posting.
JobHrefs == ({ "rel" } \X Keys) \cup { << "abs", 1 >> }
Hrefs == JobHrefs \cup { << "nav", 0 >> }

\* "/msg/lv/work/are-required/" in a["href"]
IsJobLink(h) == h[1] # "nav"

\* full_url = BASE_URL + href if href.startswith("/") else href
\* A full url is named by the key of its posting: the relative href gets the
\* host put in front, the absolute one is taken as it stands.
FullUrl(h) == h[2]

\* job_links = [a["href"] for a in links if <job path> in a["href"]]
RECURSIVE JobLinks(_)
JobLinks(links) ==
    IF links = << >> THEN << >>
    ELSE (IF IsJobLink(Head(links)) THEN << Head(links) >> ELSE << >>)
         \o JobLinks(Tail(links))

\* The scan as it would be without the check against seen_on_this_run.
RECURSIVE ScanLinksNoCheck(_, _)
ScanLinksNoCheck(job_links, acc) ==
    IF job_links = << >> THEN acc
    ELSE LET full_url == FullUrl(Head(job_links)) IN
         ScanLinksNoCheck(Tail(job_links),
                          [seen |-> acc.seen \cup { full_url },
                           urls |-> Append(acc.urls, full_url),
                           new_found |-> acc.new_found + 1])

\* for href in job_links: ...   (lines 117-123)
RECURSIVE ScanLinks(_, _)
ScanLinks(job_links, acc) ==
    IF job_links = << >> THEN acc
    ELSE LET full_url == FullUrl(Head(job_links)) IN
         IF full_url \notin acc.seen
         THEN ScanLinks(Tail(job_links),
                        [seen |-> acc.seen \cup { full_url },
                         urls |-> Append(acc.urls, full_url),
                         new_found |-> acc.new_found + 1])
         ELSE ScanLinks(Tail(job_links), acc)


\* The page loop as it would be with range(1, MAX_PAGES + 2).
WalkDecisionPastCeiling(soup_ok, job_links, new_found, p) ==
    IF ~soup_ok THEN "failed"
    ELSE IF job_links = << >> THEN "empty"
    ELSE IF new_found = 0 THEN "alldup"
    ELSE IF p + 1 <= MAX_PAGES + 1 THEN "next"
    ELSE "max"

\* The page loop as it would be with `continue` for `break` on an empty page.
WalkDecisionSkipEmpty(soup_ok, job_links, new_found, p) ==
    IF ~soup_ok THEN "failed"
    ELSE IF job_links = << >> \/ new_found > 0
         THEN (IF p + 1 <= MAX_PAGES THEN "next" ELSE "max")
    ELSE "alldup"

\* The page loop as it would be without the new_found == 0 test.
WalkDecisionSkipAllDup(soup_ok, job_links, new_found, p) ==
    IF ~soup_ok THEN "failed"
    ELSE IF job_links = << >> THEN "empty"
    ELSE IF p + 1 <= MAX_PAGES THEN "next"
    ELSE "max"

\* The page loop as it would be if it stopped at the first page holding a
\* url it has already seen.
WalkDecisionStopOnDup(soup_ok, job_links, new_found, p) ==
    IF ~soup_ok THEN "failed"
    ELSE IF job_links = << >> THEN "empty"
    ELSE IF new_found < Len(job_links) THEN "alldup"
    ELSE IF p + 1 <= MAX_PAGES THEN "next"
    ELSE "max"

\* The page loop as it would be with `continue` for `break` on a failed fetch.
WalkDecisionSkipFailed(soup_ok, job_links, new_found, p) ==
    IF ~soup_ok \/ new_found > 0
    THEN (IF p + 1 <= MAX_PAGES THEN "next" ELSE "max")
    ELSE IF job_links = << >> THEN "empty"
    ELSE "alldup"

\* How one iteration of the page loop ends (lines 103-130 and the loop header
\* at line 97): break on a failed fetch, on an empty page, on a page without
\* a new url; otherwise sleep and go to the next page while there is one.
WalkDecision(soup_ok, job_links, new_found, p) ==
    IF ~soup_ok THEN "failed"
    ELSE IF job_links = << >> THEN "empty"
    ELSE IF new_found = 0 THEN "alldup"
    ELSE IF p + 1 <= MAX_PAGES THEN "next"
    ELSE "max"

NoSoup == [ok |-> FALSE, links |-> << >>]

Soup(got, links) == IF got THEN [ok |-> TRUE, links |-> links] ELSE NoSoup

\* Entry of collect_urls_for_category (lines 94-97).
EnterCollect ==
    /\ urls' = << >>
    /\ seen_on_this_run' = {}
    /\ reqPages' = << >>
    /\ lastSoup' = NoSoup
    /\ prevUrls' = << >>
    /\ page_num' = 1
    /\ walkEnd' = "none"
    /\ pc' = "walk"

\* One iteration of the page loop, given what get_page(page_url) handed back.
CollectPage(soup) ==
    /\ pc = "walk"
    /\ reqPages' = Append(reqPages, page_num)
    /\ lastSoup' = soup
    /\ prevUrls' = urls
    /\ LET job_links == JobLinks(soup.links)
           scan == ScanLinks(job_links, [seen |-> seen_on_this_run,
                                         urls |-> urls, new_found |-> 0])
           d == WalkDecision(soup.ok, job_links, scan.new_found, page_num)
       IN  /\ IF d \in { "failed", "empty" }
              THEN UNCHANGED << urls, seen_on_this_run >>
              ELSE urls' = scan.urls /\ seen_on_this_run' = scan.seen
           /\ IF d = "next"
              THEN page_num' = page_num + 1 /\ pc' = "walk" /\ walkEnd' = "none"
              ELSE UNCHANGED page_num /\ pc' = "returned" /\ walkEnd' = d

\* What the server can put on a listing page.
ListingPages == SeqsUpTo(Hrefs, MaxLinks)

\* What a get_page call with the default budget can hand back: a page or None.
GetPageAnswers == { GotPage(t) : t \in Transports(DEFAULT_RETRIES) }

\* What get_page(page_url) can hand to the page loop when the server's pages
\* are those of `pages`.
Soups(pages) == { Soup(got, links) : got \in GetPageAnswers, links \in pages }

----------------------------------------------------------------------------
(* The output file: csv.DictWriter rows and csv.DictReader *)

Header == [kind |-> "header", category |-> 0, title |-> "title", url |-> 0,
           posted_date |-> "posted_date", scraped_date |-> 0,
           description |-> "description"]

\* writer.writerow({...})   (lines 250-257)
Row(category_name, detail, url, scraped_date) ==
    [kind |-> "row", category |-> category_name, title |-> detail.title,
     url |-> url, posted_date |-> detail.posted_date,
     scraped_date |-> scraped_date, description |-> detail.description]

\* Lines 250-258 as they would be without the flush of line 258.
WriteRowNoFlush(f, b, row) == [file |-> f, buf |-> b \o << row >>]

\* Lines 250-258 as they would be on a file opened with "w" for each row.
WriteRowTruncating(f, b, row) == [file |-> b \o << row >>, buf |-> << >>]

\* writer.writerow({...}); csv_file.flush()   (lines 250-258): the row goes
\* into the buffer behind what is already there, and the buffer goes to disk.
WriteRowAndFlush(f, b, row) == [file |-> f \o b \o << row >>, buf |-> << >>]

\* load_existing_urls as it would be if it never added to `seen`.
LoadExistingUrlsNothing(exists, f) == [error |-> FALSE, seen |-> {}]

\* csv.DictReader takes the first line of the file as the column names,
\* whatever it is, and yields the lines after it; row["url"] raises KeyError
\* when no column is named url, which is the case exactly when the first
\* line is a data row.
LoadExistingUrls(exists, f) ==
    IF ~exists \/ f = << >> THEN [error |-> FALSE, seen |-> {}]
    ELSE LET fieldnames == Head(f)
             rows == Tail(f)
         IN  IF rows = << >> THEN [error |-> FALSE, seen |-> {}]
             ELSE IF fieldnames.kind # "header"
                  THEN [error |-> TRUE, seen |-> {}]
                  ELSE [error |-> FALSE,
                        seen |-> { rows[i].url : i \in 1..Len(rows) }]

----------------------------------------------------------------------------
(* Detail pages and scrape_job_detail (ss_lv_scraper.py:137-197) *)

\* A detail page, as far as scrape_job_detail looks at it: the text of
\* <h2 class="headline">, of <title>, of the cell after "Datums", and of the
\* message div.
CompletePage == [h2 |-> "Job", title_tag |-> "Job - SS.LV",
                 date_cell |-> "12.02.2025", msg |-> "text"]
BarePage == [h2 |-> "", title_tag |-> "", date_cell |-> "", msg |-> ""]

\* The detail page the site serves for a url.
DetailPageOf(url) == IF url = 1 THEN BarePage ELSE CompletePage

\* datetime.strptime(raw, "%d.%m.%Y").strftime("%Y-%m-%d"), or raw kept
ConvertDate(raw_date) ==
    IF raw_date = "12.02.2025" THEN "2025-02-12" ELSE raw_date

ExtractDetail(page) ==
    [title |-> IF page.h2 # "" THEN page.h2
               ELSE IF page.title_tag = "Job - SS.LV" THEN "Job"
               ELSE page.title_tag,
     posted_date |-> ConvertDate(page.date_cell),
     description |-> page.msg]

\* scrape_job_detail as it would be if it went on to extract from a page
\* it did not get.
ScrapeJobDetailNeverNone(got, url) ==
    [none |-> FALSE] @@ ExtractDetail(IF got THEN DetailPageOf(url) ELSE BarePage)

\* scrape_job_detail(url): None when get_page gave None, else the dict.
ScrapeJobDetail(got, url) ==
    IF ~got THEN [none |-> TRUE, title |-> "", posted_date |-> "",
                  description |-> ""]
    ELSE [none |-> FALSE] @@ ExtractDetail(DetailPageOf(url))

----------------------------------------------------------------------------
(* run_scraper (ss_lv_scraper.py:202-279) *)

Categories == 1..NumCategories

\* What a listing page holds in the run_scraper specifications: under Spec
\* any page of job links to the site's keys, under SpecResume (where the pages
\* served are remembered) a shorter one.
SiteKeys == 1..NumSiteKeys
SiteListings == SeqsUpTo({ "rel" } \X SiteKeys, MaxLinks)
ResumeListings == SeqsUpTo({ "rel" } \X SiteKeys, MaxSiteLinks)

NoDetail == [url |-> 0, got |-> FALSE, ok |-> FALSE, known |-> FALSE]
NoKill == [k1 |-> 0, k2 |-> 0]

\* The memory of a process that is not running.
NoProcess ==
    /\ existing_urls' = {}
    /\ buf' = << >>
    /\ cat' = 1
    /\ new_urls' = << >>
    /\ j' = 0
    /\ cat_success' = 0
    /\ cat_failed' = 0
    /\ total_new' = 0
    /\ page_num' = 1
    /\ urls' = << >>
    /\ seen_on_this_run' = {}
    /\ reqPages' = << >>
    /\ lastSoup' = NoSoup
    /\ prevUrls' = << >>
    /\ walkEnd' = "none"
    /\ lastDetail' = NoDetail
    /\ stageKnown' = {}
    /\ cleanRun' = TRUE

\* Line 230 as it would be without the filter.
NewUrlsNoFilter(all_urls, existing) == all_urls

\* new_urls = [u for u in all_urls if u not in existing_urls]   (line 230)
NewUrls(all_urls, existing) ==
    SelectSeq(all_urls, LAMBDA u : u \notin existing)

\* Lines 203-229: load the known urls, open the file for appending, write
\* the header into the buffer when the file did not exist, and enter the
\* first category.  A KeyError of load_existing_urls ends the process before
\* the file is opened.
StartRun ==
    /\ pc \in { "idle", "done", "killed", "failed" }
    /\ runs < MaxRuns
    /\ runs' = runs + 1
    /\ LET loaded == LoadExistingUrls(fileExists, file) IN
       IF loaded.error
       THEN /\ pc' = "failed"
            /\ prevClean' = FALSE
            /\ UNCHANGED << fileVars, runVars, walkVars, lastDetail,
                            stageKnown, killed, cleanRun >>
       ELSE /\ existing_urls' = loaded.seen
            /\ fileExists' = TRUE
            /\ file' = file
            /\ buf' = IF fileExists THEN << >> ELSE << Header >>
            /\ total_new' = 0
            /\ cat' = 1
            /\ new_urls' = << >>
            /\ j' = 0
            /\ cat_success' = 0
            /\ cat_failed' = 0
            /\ EnterCollect
            /\ lastDetail' = NoDetail
            /\ stageKnown' = {}
            /\ cleanRun' = TRUE
            /\ killed' = IF pc = "killed" THEN killed ELSE NoKill
            /\ UNCHANGED prevClean
    /\ UNCHANGED << site, gpVars, mergeVars, traceVars, otherVars >>

\* The category loop moves on (line 225), or ends: csv_file.close() (line
\* 271) writes out what is still buffered.
AdvanceCategory ==
    IF cat < NumCategories
    THEN /\ cat' = cat + 1
         /\ EnterCollect
         /\ UNCHANGED << file, buf, prevClean >>
    ELSE /\ pc' = "done"
         /\ file' = file \o buf
         /\ buf' = << >>
         /\ prevClean' = cleanRun
         /\ UNCHANGED << cat, walkVars >>

\* Stage 1 of a category: one listing page, any answer of the server.
ListingStep ==
    /\ \E soup \in Soups(SiteListings) :
          /\ CollectPage(soup)
          /\ cleanRun' = (cleanRun /\ soup.ok)
    /\ UNCHANGED << fileVars, site, runs, runVars, lastDetail, stageKnown,
                    killed, prevClean, gpVars, mergeVars, traceVars, otherVars >>

\* Stage 1 against the unchanging site: a page keeps the content it had when
\* it was first served.
ListingStepSite ==
    /\ \E got \in GetPageAnswers, links \in ResumeListings :
          /\ page_num <= Len(site[cat]) => links = site[cat][page_num]
          /\ site' = IF got /\ page_num > Len(site[cat])
                     THEN [site EXCEPT ![cat] = Append(@, links)]
                     ELSE site
          /\ CollectPage(Soup(got, links))
          /\ cleanRun' = (cleanRun /\ got)
    /\ UNCHANGED << fileVars, runs, runVars, lastDetail, stageKnown,
                    killed, prevClean, gpVars, mergeVars, traceVars, otherVars >>

\* Lines 230-241: filter the known urls out; skip the category when nothing
\* is new.
BeginDetail ==
    /\ pc = "returned"
    /\ new_urls' = NewUrls(urls, existing_urls)
    /\ IF new_urls' = << >>
       THEN /\ AdvanceCategory
            /\ UNCHANGED << j, cat_success, cat_failed, stageKnown >>
       ELSE /\ pc' = "detail"
            /\ j' = 0
            /\ cat_success' = 0
            /\ cat_failed' = 0
            /\ stageKnown' = existing_urls
            /\ UNCHANGED << cat, walkVars, file, buf, prevClean >>
    /\ UNCHANGED << fileExists, site, runs, existing_urls, total_new,
                    lastDetail, killed, cleanRun, gpVars, mergeVars, traceVars, otherVars >>

\* The iteration as it would be if a failed url were not counted.
DetailIterationUncounted(got) ==
    /\ pc = "detail"
    /\ j < Len(new_urls)
    /\ LET url == new_urls[j + 1]
           detail == ScrapeJobDetail(got, url)
       IN  /\ lastDetail' = [url |-> url, got |-> got, ok |-> ~detail.none,
                             known |-> url \in existing_urls]
           /\ IF detail.none
              THEN /\ cleanRun' = FALSE
                   /\ UNCHANGED << file, buf, existing_urls, cat_success,
                                   cat_failed, total_new >>
              ELSE LET w == WriteRowAndFlush(file, buf,
                                            Row(cat, detail, url, runs))
                   IN  /\ file' = w.file
                       /\ buf' = w.buf
                       /\ existing_urls' = existing_urls \cup { url }
                       /\ cat_success' = cat_success + 1
                       /\ total_new' = total_new + 1
                       /\ UNCHANGED << cat_failed, cleanRun >>
    /\ j' = j + 1
    /\ UNCHANGED << fileExists, site, runs, pc, cat, new_urls, walkVars,
                    stageKnown, killed, prevClean >>

\* Lines 243-267: one iteration of the detail loop, given whether the
\* get_page call of scrape_job_detail handed back a page.
DetailIteration(got) ==
    /\ pc = "detail"
    /\ j < Len(new_urls)
    /\ LET url == new_urls[j + 1]
           detail == ScrapeJobDetail(got, url)
       IN  /\ lastDetail' = [url |-> url, got |-> got, ok |-> ~detail.none,
                             known |-> url \in existing_urls]
           /\ IF detail.none
              THEN /\ cat_failed' = cat_failed + 1
                   /\ cleanRun' = FALSE
                   /\ UNCHANGED << file, buf, existing_urls, cat_success,
                                   total_new >>
              ELSE LET w == WriteRowAndFlush(file, buf,
                                            Row(cat, detail, url, runs))
                   IN  /\ file' = w.file
                       /\ buf' = w.buf
                       /\ existing_urls' = existing_urls \cup { url }
                       /\ cat_success' = cat_success + 1
                       /\ total_new' = total_new + 1
                       /\ UNCHANGED << cat_failed, cleanRun >>
    /\ j' = j + 1
    /\ UNCHANGED << fileExists, site, runs, pc, cat, new_urls, walkVars,
                    stageKnown, killed, prevClean >>

\* The iteration with any answer of get_page.
DetailStep ==
    /\ \E got \in GetPageAnswers : DetailIteration(got)
    /\ UNCHANGED << gpVars, mergeVars, traceVars, otherVars >>

\* Line 269 and the loop header: the detail loop is over.
EndDetailStage ==
    /\ pc = "detail"
    /\ j = Len(new_urls)
    /\ AdvanceCategory
    /\ lastDetail' = NoDetail
    /\ stageKnown' = {}
    /\ UNCHANGED << fileExists, site, runs, existing_urls, new_urls, j,
                    cat_success, cat_failed, total_new, killed, cleanRun,
                    gpVars, mergeVars, traceVars, otherVars >>

\* The process ends before run_scraper returns.  A kill loses what is in the
\* write buffer; an exit through an exception or interrupt lets the
\* interpreter close the file, which writes the buffer out.
Terminate ==
    /\ pc \in { "walk", "returned", "detail" }
    /\ \E flushed \in BOOLEAN :
          file' = IF flushed THEN file \o buf ELSE file
    /\ pc' = "killed"
    /\ killed' = IF pc = "detail" /\ 0 < j /\ j < Len(new_urls) /\ lastDetail.ok
                 THEN [k1 |-> new_urls[j], k2 |-> new_urls[j + 1]]
                 ELSE NoKill
    /\ prevClean' = FALSE
    /\ NoProcess
    /\ UNCHANGED << fileExists, site, runs, gpVars, mergeVars, traceVars, otherVars >>

----------------------------------------------------------------------------
(* collect_urls_for_category and get_page on their own *)

\* A call of collect_urls_for_category.
CollectCall ==
    /\ pc = "returned"
    /\ EnterCollect
    /\ UNCHANGED << fileVars, site, runs, runVars, histVars, gpVars, mergeVars, traceVars, otherVars >>

\* One listing page, any answer of the server.
CollectStep ==
    /\ \E soup \in Soups(ListingPages) : CollectPage(soup)
    /\ UNCHANGED << fileVars, site, runs, runVars, histVars, gpVars, mergeVars, traceVars, otherVars >>

NoResult == [page |-> 0, requests |-> 0, events |-> << >>]

\* A call get_page(url, retries) against the scripted transport.
CallGetPage ==
    /\ pc = "gp_call"
    /\ gp_result' = GetPage(gp_transport, gp_retries)
    /\ pc' = "gp_return"
    /\ UNCHANGED << fileVars, site, runs, runVars, walkVars, histVars,
                    gp_transport, gp_retries, mergeVars, traceVars, otherVars >>

----------------------------------------------------------------------------
(* merge_and_save (build_master_dataset.py:130-151) *)

\* The url of a processed row: 0 stands for the empty string, which is what
\* row.get("url", "") gives for a row without a url.
NoUrl == 0
MergeUrls == 0..NumMergeUrls

\* Processed rows as process_ss_lv and process_cv_lv build them; title
\* stands for all the fields that are not the url or the source.
Titles == { "T1", "T2" }
SsRecords == [source : { "ss.lv" }, url : MergeUrls, title : Titles]
CvRecords == [source : { "cv.lv" }, url : MergeUrls, title : Titles]

\* for row in all_rows: ...   (lines 140-146)
RECURSIVE DedupByUrl(_, _, _)
DedupByUrl(all_rows, seen_urls, unique) ==
    IF all_rows = << >> THEN unique
    ELSE LET row == Head(all_rows)
             url == row.url
         IN  IF url # NoUrl /\ url \notin seen_urls
             THEN DedupByUrl(Tail(all_rows), seen_urls \cup { url },
                             Append(unique, row))
             ELSE DedupByUrl(Tail(all_rows), seen_urls, unique)

\* merge_and_save as it would be with all_rows = cv_rows + ss_rows.
MergeAndSaveCvFirst(ss, cv) == DedupByUrl(cv \o ss, {}, << >>)

\* merge_and_save as it would be without the loop that filters by url.
MergeAndSaveUnfiltered(ss, cv) == ss \o cv

\* all_rows = ss_rows + cv_rows; the rows written behind the header.
MergeAndSave(ss, cv) == DedupByUrl(ss \o cv, {}, << >>)

\* The call merge_and_save(ss_rows, cv_rows).
MergeCall ==
    /\ pc = "merge_call"
    /\ unique_rows' = MergeAndSave(ss_rows, cv_rows)
    /\ pc' = "merge_done"
    /\ UNCHANGED << scraperVars, otherVars, ss_rows, cv_rows >>

----------------------------------------------------------------------------
(* cv.lv: scrape_category and scrape_all_categories (cv_lv_scraper.py) *)

CvIds == 1..NumCvIds

CeilDiv(a, b) == (a + b - 1) \div b

\* What get_next_data hands back for a search page: None, or the page's data,
\* of which the scraper reads the category total and the vacancies.
NoCvPage == [ok |-> FALSE, total |-> 0, vacancies |-> << >>]
CvFirstPages ==
    { NoCvPage } \cup [ok : { TRUE }, total : 0..MaxCvTotal,
                       vacancies : SeqsUpTo(CvIds, LIMIT)]
\* Of a later page only the vacancies are read.
CvLaterPages ==
    { NoCvPage } \cup [ok : { TRUE }, total : { 0 },
                       vacancies : SeqsUpTo(CvIds, LIMIT)]

\* The pages the server has for one category: the first and those behind it.
CvServers ==
    [first : CvFirstPages,
     later : [1..(CeilDiv(MaxCvTotal, LIMIT) - 1) -> CvLaterPages]]

\* parse_job(v, display_name), as far as id and category go.
CvParseJob(v, display_name) == [id |-> v, category |-> display_name]

CvParseAll(vacancies, display_name) ==
    [i \in 1..Len(vacancies) |-> CvParseJob(vacancies[i], display_name)]

\* for page in range(1, total_pages): ...   (lines 192-209)
RECURSIVE CvLaterLoop(_, _, _, _, _)
CvLaterLoop(server, display_name, page, total_pages, all_jobs) ==
    IF page >= total_pages THEN all_jobs
    ELSE LET data == server.later[page] IN
         IF ~data.ok THEN all_jobs
         ELSE IF data.vacancies = << >> THEN all_jobs
         ELSE CvLaterLoop(server, display_name, page + 1, total_pages,
                          all_jobs \o CvParseAll(data.vacancies, display_name))

\* scrape_category(category_key, display_name) with max_pages = None.
CvScrapeCategory(server, display_name) ==
    LET first == server.first IN
    IF ~first.ok THEN << >>
    ELSE IF first.total = 0 /\ first.vacancies = << >> THEN << >>
    ELSE LET total_pages == IF first.total # 0
                            THEN CeilDiv(first.total, LIMIT) ELSE 1
         IN  CvLaterLoop(server, display_name, 1, total_pages,
                         CvParseAll(first.vacancies, display_name))

\* for key, name in CATEGORIES.items(): all_jobs.extend(scrape_category(...))
RECURSIVE CvScrapeAllCategories(_, _)
CvScrapeAllCategories(servers, c) ==
    IF c > Len(servers) THEN << >>
    ELSE CvScrapeCategory(servers[c], c) \o CvScrapeAllCategories(servers, c + 1)

\* The call scrape_all_categories().
CvCall ==
    /\ pc = "cv_call"
    /\ cv_all_jobs' = CvScrapeAllCategories(cv_site, 1)
    /\ pc' = "cv_done"
    /\ UNCHANGED << scraperVars, mergeVars, cv_site, likeVars, laterVars >>

----------------------------------------------------------------------------
(* likeit.lv: scrape_category and scrape_all (likeIT_lv.py) *)

\* A job of the site's page data, as far as its identity goes: its id and
\* its slug, 0 standing for a value that is missing or empty.
LikeRawJobs == [id : 0..NumLikeIds, slug : { 0, 1 }]

\* job_url of parse_job (line 104): by the slug, else by the id, else "".
LikeJobUrl(job) ==
    IF job.slug # 0 THEN << "slug", job.slug >>
    ELSE IF job.id # 0 THEN << "id", job.id >>
    ELSE << "", 0 >>

\* parse_job(j, name), as far as id, job_url and category go.
LikeParseJob(job, name) ==
    [id |-> job.id, job_url |-> LikeJobUrl(job), category |-> name]

\* jid = str(p["id"]) or p["job_url"]   (lines 157, 190)
LikeJid(p) == IF p.id # 0 THEN << "str", p.id >> ELSE << "url", p.job_url >>

\* for j in jobs_list: ...   (lines 155-160)
RECURSIVE LikeCollect(_, _, _)
LikeCollect(jobs_list, name, acc) ==
    IF jobs_list = << >> THEN acc
    ELSE LET p == LikeParseJob(Head(jobs_list), name)
             jid == LikeJid(p)
         IN  IF jid \notin acc.seen
             THEN LikeCollect(Tail(jobs_list), name,
                              [seen |-> acc.seen \cup { jid },
                               out |-> Append(acc.out, p)])
             ELSE LikeCollect(Tail(jobs_list), name, acc)

\* scrape_all as it would be if a job found again replaced the one kept.
RECURSIVE LikeMergeLastWins(_, _)
LikeMergeLastWins(jobs, acc) ==
    IF jobs = << >> THEN acc
    ELSE LET jid == LikeJid(Head(jobs))
             kept == SelectSeq(acc.out, LAMBDA q : LikeJid(q) # jid)
         IN  LikeMergeLastWins(Tail(jobs), [seen |-> acc.seen \cup { jid },
                                            out |-> Append(kept, Head(jobs))])

\* for j in jobs: ...   (lines 189-194)
RECURSIVE LikeMerge(_, _)
LikeMerge(jobs, acc) ==
    IF jobs = << >> THEN acc
    ELSE LET jid == LikeJid(Head(jobs)) IN
         IF jid \notin acc.seen
         THEN LikeMerge(Tail(jobs), [seen |-> acc.seen \cup { jid },
                                     out |-> Append(acc.out, Head(jobs))])
         ELSE LikeMerge(Tail(jobs), acc)

\* The loop over CATEGORIES of scrape_all (lines 176-197); listed[c] is what
\* the pages of category c held, in the order the walk read them.
RECURSIVE LikeScrapeAll(_, _, _)
LikeScrapeAll(listed, c, acc) ==
    IF c > Len(listed) THEN acc.out
    ELSE LET jobs == LikeCollect(listed[c], c, [seen |-> {}, out |-> << >>]).out
         IN  LikeScrapeAll(listed, c + 1, LikeMerge(jobs, acc))

\* The call scrape_all().
LikeCall ==
    /\ pc = "li_call"
    /\ li_all_jobs' = LikeScrapeAll(li_site, 1, [seen |-> {}, out |-> << >>])
    /\ pc' = "li_done"
    /\ UNCHANGED << scraperVars, mergeVars, cvVars, laterVars, li_site, li_page, li_seen,
                    li_jobs_out >>

\* What get_next_data and extract_jobs_and_pagination hand to the walk for a
\* page: nothing, or the page's jobs and the last_page the server reports.
\* last = MaxLikePages + 2 is a last page beyond every index of the model.
NoLikePage == [ok |-> FALSE, jobs_list |-> << >>, last |-> 1]
LikePages ==
    { NoLikePage } \cup [ok : { TRUE },
                         jobs_list : SeqsUpTo(LikeRawJobs, MaxLikeJobs),
                         last : 1..(MaxLikePages + 2)]

\* page += 1 (line 164).  The index is kept exactly up to MaxLikePages and
\* from there on by its parity only: MaxLikePages and MaxLikePages + 1 stand
\* for the indexes that far or further, which the loop treats alike.
LikeNextPage(page) ==
    IF page <= MaxLikePages THEN page + 1 ELSE MaxLikePages

\* One pass through the while loop of scrape_category (lines 130-165).
LikeWalkStep ==
    /\ pc = "li_walk"
    /\ \E data \in LikePages :
          IF ~data.ok \/ data.jobs_list = << >>
          THEN /\ pc' = "li_returned"
               /\ UNCHANGED << li_page, li_seen, li_jobs_out >>
          ELSE LET acc == LikeCollect(data.jobs_list, 1,
                                      [seen |-> li_seen, out |-> li_jobs_out])
               IN  /\ li_seen' = acc.seen
                   /\ li_jobs_out' = acc.out
                   /\ IF li_page >= data.last
                      THEN pc' = "li_returned" /\ UNCHANGED li_page
                      ELSE /\ pc' = "li_walk"
                           /\ li_page' = LikeNextPage(li_page)
    /\ UNCHANGED << scraperVars, mergeVars, cvVars, laterVars, li_site,
                    li_all_jobs >>

\* A call scrape_category(session, slug, name).
LikeWalkCall ==
    /\ pc = "li_returned"
    /\ li_page' = 1
    /\ li_seen' = {}
    /\ li_jobs_out' = << >>
    /\ pc' = "li_walk"
    /\ UNCHANGED << scraperVars, mergeVars, cvVars, laterVars, li_site,
                    li_all_jobs >>

----------------------------------------------------------------------------
(* The title/date backfill: fix_ss_lv.py and build_master_dataset.py *)

\* Texts the site can show as a date: none, a date, a date with a time, and
\* a word ("yesterday").
DateTexts == { "", "12.02.2025", "12.02.2025 14:30", "vakar" }

\* The detail pages scrape_job_detail can be given.
DetailPages == [h2 : { "", "Job" }, title_tag : { "", "Job - SS.LV" },
                date_cell : DateTexts, msg : { "", "text" }]

\* raw.split()[0] for a raw that has a word in it
FirstWord(raw) == IF raw = "12.02.2025 14:30" THEN "12.02.2025" ELSE raw

\* datetime.strptime(s, "%d.%m.%Y") succeeds
IsDMY(s) == s = "12.02.2025"

\* try: date = strptime(raw.split()[0], ...).date().isoformat()
\* except: date = raw        (raw = "" raises in split()[0] and is kept)
FixDate(raw) ==
    IF raw # "" /\ IsDMY(FirstWord(raw)) THEN "2025-02-12" ELSE raw

\* What requests.get hands to fix for a url: an exception, or a page with
\* its "Profesija" value and, when it has a footer with "Datums:", the text
\* that follows it.
NoFixPage == [ok |-> FALSE, profesija |-> "", datums |-> FALSE, raw |-> ""]
FixPages ==
    { NoFixPage }
    \cup [ok : { TRUE }, profesija : { "", "T1" }, datums : { FALSE },
          raw : { "" }]
    \cup [ok : { TRUE }, profesija : { "", "T1" }, datums : { TRUE },
          raw : DateTexts]

\* fix(url) and fix_ss_lv_row(url), given what the request handed back.
Fix(answer) ==
    IF ~answer.ok THEN [title |-> "", date |-> ""]
    ELSE [title |-> answer.profesija,
          date |-> IF answer.datums THEN FixDate(answer.raw) ELSE ""]

INPUT == "data/raw/ss_lv_jobs_full.csv"
OUTPUT == "data/raw/ss_lv_jobs_fixed.csv"

\* Rows of the input file, as csv.DictReader hands them over.
FixUrls == 1..NumFixUrls
FixInputRows == [category : { 1 }, title : { "T0" }, url : FixUrls,
                 posted_date : { "", "2025-01-01" }, scraped_date : { 1 },
                 description : { "text" }]

\* The loop of fix_ss_lv.py as it would be if it stored whatever fix gave.
FixRowsOverwrite(rows, pages) ==
    [i \in 1..Len(rows) |->
        [rows[i] EXCEPT !.title = Fix(pages[i]).title,
                        !.posted_date = Fix(pages[i]).date]]

\* for i, r in enumerate(rows, 1): ...   (fix_ss_lv.py lines 31-34)
FixRows(rows, pages) ==
    [i \in 1..Len(rows) |->
        LET f == Fix(pages[i]) IN
        [rows[i] EXCEPT !.title = IF f.title # "" THEN f.title ELSE @,
                        !.posted_date = IF f.date # "" THEN f.date ELSE @]]

\* The loop of process_ss_lv (lines 79-91).
ProcessSsLv(rows, pages) ==
    [i \in 1..Len(rows) |->
        LET f == Fix(pages[i])
            row == rows[i]
        IN  [source |-> "ss.lv",
             category |-> row.category,
             title |-> IF f.title # "" THEN f.title ELSE row.title,
             url |-> row.url,
             posted_date |-> IF f.date # "" THEN f.date ELSE row.posted_date,
             scraped_date |-> row.scraped_date,
             description |-> row.description]]

\* A run of fix_ss_lv.py, lines 30-42: read INPUT, fix, write OUTPUT.
FixCall ==
    /\ pc = "fx_call"
    /\ fx_disk' = [fx_disk EXCEPT ![OUTPUT] = FixRows(fx_disk[INPUT], fx_pages)]
    /\ pc' = "fx_fixed"
    /\ UNCHANGED << scraperVars, mergeVars, cvVars, likeVars, dateVars, vdVars, toolVars,
                    fx_input, fx_pages, fx_processed >>

\* A call process_ss_lv(): read SS_LV_FILE, which is the same file, and
\* return the processed rows.
ProcessCall ==
    /\ pc = "fx_call"
    /\ fx_processed' = ProcessSsLv(fx_disk[INPUT], fx_pages)
    /\ pc' = "fx_processed"
    /\ UNCHANGED << scraperVars, mergeVars, cvVars, likeVars, dateVars, vdVars, toolVars,
                    fx_input, fx_pages, fx_disk >>

\* The row run_scraper writes for a detail page (lines 244-257).
DetailRowCall ==
    /\ pc = "dt_call"
    /\ dt_row = << >>
    /\ dt_row' = << Row(1, ExtractDetail(dt_page[1]), 1, 1) >>
    /\ UNCHANGED << scraperVars, mergeVars, cvVars, likeVars, fixVars, vdVars, toolVars,
                    pc, dt_page, dt_answer, dt_fix >>

\* A call fix(url).
FixDateCall ==
    /\ pc = "dt_call"
    /\ dt_fix = << >>
    /\ dt_fix' = << Fix(dt_answer[1]) >>
    /\ UNCHANGED << scraperVars, mergeVars, cvVars, likeVars, fixVars, vdVars, toolVars,
                    pc, dt_page, dt_answer, dt_row >>

----------------------------------------------------------------------------
(* visidarbi.lv: scrape_all (VisiDarbi_lv.py) *)

\* A card of a listing page is known by the last segment of its link; 0 is
\* a card without a link.  parse_card takes the id from the job_url.
VdCards == 0..NumVdIds
VdParseCard(card) == [id |-> card, job_url |-> card]

\* jid = job["id"] or job["job_url"]   (line 183)
VdJid(job) == IF job.id # 0 THEN job.id ELSE job.job_url

\* What fetch_soup hands back for a page: None, or the page's cards.
NoVdPage == [ok |-> FALSE, cards |-> << >>]
VdPages == { NoVdPage } \cup [ok : { TRUE }, cards : SeqsUpTo(VdCards, MaxVdCards)]

\* The total the first page shows, the max_pages argument (0 for None) and
\* what the site answers for each page.
VdTotals == { n * PER_PAGE + d : n \in 0..(MaxVdPages - 1), d \in { 0, 1 } }
VdServers == [total : VdTotals, max_pages : 0..MaxVdPages,
              pages : [1..MaxVdPages -> VdPages]]

Max(a, b) == IF a >= b THEN a ELSE b
Min(a, b) == IF a <= b THEN a ELSE b

\* Lines 150-153.
VdLastPage(total, max_pages) ==
    LET last_page == Max(1, (total \div PER_PAGE) + 1) IN
    IF max_pages # 0 THEN Min(last_page, max_pages) ELSE last_page

\* for card in cards: ...   (lines 181-187)
RECURSIVE VdCollect(_, _)
VdCollect(cards, acc) ==
    IF cards = << >> THEN acc
    ELSE LET job == VdParseCard(Head(cards))
             jid == VdJid(job)
         IN  IF jid # 0 /\ jid \notin acc.seen_ids
             THEN VdCollect(Tail(cards),
                            [acc EXCEPT !.seen_ids = @ \cup { jid },
                                        !.all_jobs = Append(@, job)])
             ELSE VdCollect(Tail(cards), acc)

\* for page in range(1, last_page + 1): ...   (lines 162-192); acc.requested
\* lists the pages fetch_soup was called for.
RECURSIVE VdLoop(_, _, _, _)
VdLoop(server, page, last_page, acc) ==
    IF page > last_page THEN acc
    ELSE LET asked == IF page = 1 THEN acc
                      ELSE [acc EXCEPT !.requested = Append(@, page)]
             page_soup == server.pages[page]
         IN  IF ~page_soup.ok
             THEN VdLoop(server, page + 1, last_page, asked)
             ELSE IF page_soup.cards = << >>
             THEN asked
             ELSE VdLoop(server, page + 1, last_page,
                         VdCollect(page_soup.cards, asked))

\* scrape_all(max_pages): the fetch of page 1 (lines 144-148), then the loop.
VdScrapeAll(server) ==
    LET start == [requested |-> << 1 >>, seen_ids |-> {}, all_jobs |-> << >>]
    IN  IF ~server.pages[1].ok THEN start
        ELSE VdLoop(server, 1, VdLastPage(server.total, server.max_pages),
                    start)

VdCall ==
    /\ pc = "vd_call"
    /\ LET r == VdScrapeAll(vd_server[1]) IN
          /\ vd_requested' = r.requested
          /\ vd_all_jobs' = r.all_jobs
    /\ pc' = "vd_done"
    /\ UNCHANGED << scraperVars, mergeVars, cvVars, likeVars, dateVars,
                    fixVars, toolVars, vd_server >>

----------------------------------------------------------------------------
(* SSLVPageCounter.count_pages_for_category (scraper/ss_lv_scraper.py) *)

\* What requests.get gives for a page: an exception, a status other than
\* 200, or a page with so many <tr id="tr_..."> rows, <tr class="msg2"> rows
\* and rows with a link.
CntAnswers ==
    [kind : { "exc", "status" }, tr_rows : { 0 }, msg2_rows : { 0 },
     link_rows : { 0 }]
    \cup [kind : { "ok" }, tr_rows : 0..MaxJobRows,
          msg2_rows : { 0, MaxJobRows }, link_rows : { 0, MaxJobRows }]

\* len(job_rows) after the three selectors of lines 73-78.
CntJobRows(answer) ==
    IF answer.tr_rows # 0 THEN answer.tr_rows
    ELSE IF answer.msg2_rows # 0 THEN answer.msg2_rows
    ELSE answer.link_rows

\* The test as it would be if any row made a page count.
CntHasJobsAnyRow(answer) == answer.kind = "ok" /\ CntJobRows(answer) > 0

\* status_code == 200 and len(job_rows) > 3   (lines 67, 81)
CntHasJobs(answer) == answer.kind = "ok" /\ CntJobRows(answer) > 3

\* One pass through the loop of lines 58-90.
CntStep ==
    /\ pc = "cnt_loop"
    /\ cnt_page_num <= cnt_max_pages
    /\ \E answer \in CntAnswers :
          /\ cnt_answers' = Append(cnt_answers, answer)
          /\ IF CntHasJobs(answer)
             THEN /\ cnt_pages_with_jobs' = cnt_pages_with_jobs + 1
                  /\ cnt_page_num' = cnt_page_num + 1
                  /\ pc' = IF cnt_page_num + 1 > cnt_max_pages
                           THEN "cnt_returned" ELSE "cnt_loop"
             ELSE /\ pc' = "cnt_returned"
                  /\ UNCHANGED << cnt_pages_with_jobs, cnt_page_num >>
    /\ UNCHANGED << scraperVars, mergeVars, cvVars, likeVars, dateVars, fixVars,
                    vdVars, salVars >>

\* A call count_pages_for_category(slug)   (lines 56-58, 107)
CntCall ==
    /\ pc = "cnt_returned"
    /\ cnt_page_num' = 1
    /\ cnt_pages_with_jobs' = 0
    /\ cnt_answers' = << >>
    /\ pc' = "cnt_loop"
    /\ UNCHANGED << scraperVars, mergeVars, cvVars, likeVars, dateVars, fixVars,
                    vdVars, salVars >>

----------------------------------------------------------------------------
(* The salary fields of the three site parsers *)

\* The characters of a salary text: digits, a space, a dash, anything else.
SalChars == { "0", "1", " ", "-", "e" }

\* sal.get_text(strip=True): no space at either end.
SalTexts ==
    { t \in UNION { [1..n -> SalChars] : n \in 0..MaxSalText } :
        t = << >> \/ (t[1] # " " /\ t[Len(t)] # " ") }

\* A JSON value of a salary key: missing or null (<< >>), the number 0, or a
\* positive number, written by its digits.
SalJson == { << >>, << "0" >>, << "1" >>, << "1", "0" >> }

\* Python truth of such a value, as `or` and `if` take it.
Truthy(v) == v # << >> /\ v # << "0" >>

\* a or b
PyOr(a, b) == IF Truthy(a) THEN a ELSE b

\* x or ""
OrEmpty(v) == IF Truthy(v) THEN v ELSE << >>

NoSalInput ==
    [parser |-> "none", has_sal |-> FALSE, text |-> << >>,
     salaryFrom |-> << >>, salaryTo |-> << >>,
     salary_min |-> << >>, salary_max |-> << >>]

\* salary_from = salary_to = salary_currency = ""
NoSalary == [salary_from |-> << >>, salary_to |-> << >>, salary_currency |-> ""]

IsDigit(c) == c \in { "0", "1" }

\* [\d\s]
DigitOrSpace(c) == IsDigit(c) \/ c = " "

\* Where the longest run of [\d\s] that starts at i ends.
RunEnd(t, i) ==
    CHOOSE k \in i..Len(t) :
        /\ \A m \in i..k : DigitOrSpace(t[m])
        /\ k = Len(t) \/ ~DigitOrSpace(t[k + 1])

\* The first position from i on that holds no space (Len(t) + 1 if none).
SkipSpaces(t, i) ==
    CHOOSE k \in i..(Len(t) + 1) :
        /\ \A m \in i..(k - 1) : t[m] = " "
        /\ k = Len(t) + 1 \/ t[k] # " "

\* (\d[\d\s]*)\s*[-]\s*(\d[\d\s]*) matches at i
RangeAt(t, i) ==
    /\ IsDigit(t[i])
    /\ RunEnd(t, i) < Len(t)
    /\ t[RunEnd(t, i) + 1] = "-"
    /\ SkipSpaces(t, RunEnd(t, i) + 2) <= Len(t)
    /\ IsDigit(t[SkipSpaces(t, RunEnd(t, i) + 2)])

\* (\d[\d\s]+) matches at i
SingleAt(t, i) ==
    /\ IsDigit(t[i])
    /\ i < Len(t)
    /\ DigitOrSpace(t[i + 1])

\* .replace(" ", "")
NoSpaces(s) == SelectSeq(s, LAMBDA c : c # " ")

\* The smallest member of a non-empty set of positions: re.search takes the
\* leftmost match.
Leftmost(S) == CHOOSE i \in S : \A k \in S : i <= k

\* parse_card, the salary of a card   (VisiDarbi_lv.py, lines 88-102)
VdParseSalary(has_sal, t) ==
    LET m == { i \in 1..Len(t) : RangeAt(t, i) }
        m2 == { i \in 1..Len(t) : SingleAt(t, i) }
    IN  IF ~has_sal THEN NoSalary
        ELSE IF m # {}
        THEN LET i == Leftmost(m)
                 d == SkipSpaces(t, RunEnd(t, i) + 2)
             IN  [salary_from |-> NoSpaces(SubSeq(t, i, RunEnd(t, i))),
                  salary_to |-> NoSpaces(SubSeq(t, d, RunEnd(t, d))),
                  salary_currency |-> "EUR"]
        ELSE IF m2 # {}
        THEN LET i == Leftmost(m2)
             IN  [salary_from |-> NoSpaces(SubSeq(t, i, RunEnd(t, i))),
                  salary_to |-> << >>,
                  salary_currency |-> "EUR"]
        ELSE NoSalary

\* parse_job, the salary of a vacancy   (cv_lv_scraper.py, lines 129-133)
CvParseSalary(job) ==
    LET salary_from == OrEmpty(job.salaryFrom)
        salary_to == OrEmpty(job.salaryTo)
    IN  [salary_from |-> salary_from,
         salary_to |-> salary_to,
         salary_currency |->
             IF Truthy(PyOr(salary_from, salary_to)) THEN "EUR" ELSE ""]

\* parse_job, the salary of a job   (likeIT_lv.py, lines 112-114)
LikeParseSalary(job) ==
    [salary_from |-> OrEmpty(PyOr(job.salary_min, job.salaryFrom)),
     salary_to |-> OrEmpty(PyOr(job.salary_max, job.salaryTo)),
     salary_currency |->
         IF Truthy(PyOr(job.salary_min, job.salary_max)) THEN "EUR" ELSE ""]

SalFrame ==
    UNCHANGED << scraperVars, mergeVars, cvVars, likeVars, dateVars, fixVars,
                 vdVars, cntVars, pc >>

\* parse_card(card) on a card with or without <li class="salary">
VdSalaryCall ==
    /\ pc = "sal_parse"
    /\ \E has_sal \in BOOLEAN, t \in SalTexts :
          /\ has_sal \/ t = << >>
          /\ sal_input' = [NoSalInput EXCEPT !.parser = "visidarbi",
                                             !.has_sal = has_sal, !.text = t]
          /\ sal_record' = VdParseSalary(has_sal, t)
    /\ SalFrame

\* parse_job(job, category_name) of cv.lv
CvSalaryCall ==
    /\ pc = "sal_parse"
    /\ \E f \in SalJson, t \in SalJson :
          /\ sal_input' = [NoSalInput EXCEPT !.parser = "cv",
                                             !.salaryFrom = f, !.salaryTo = t]
          /\ sal_record' = CvParseSalary(sal_input')
    /\ SalFrame

\* parse_job(job, category) of likeIT
LikeSalaryCall ==
    /\ pc = "sal_parse"
    /\ \E lo \in SalJson, hi \in SalJson, f \in SalJson, t \in SalJson :
          /\ sal_input' = [NoSalInput EXCEPT !.parser = "likeit",
                                             !.salary_min = lo, !.salary_max = hi,
                                             !.salaryFrom = f, !.salaryTo = t]
          /\ sal_record' = LikeParseSalary(sal_input')
    /\ SalFrame

----------------------------------------------------------------------------
(* Specifications *)

\* No get_page call of its own and no merge is under way.
NoGetPageCall ==
    /\ gp_transport = [i \in 1..MaxRetries |-> "ok"]
    /\ gp_retries = DEFAULT_RETRIES
    /\ gp_result = NoResult

NoMergeCall ==
    /\ ss_rows = << >>
    /\ cv_rows = << >>
    /\ unique_rows = << >>

\* No get_page call has been observed.
NoFetch == [stage |-> "none", requests |-> 0, failed |-> FALSE, exhausted |-> FALSE,
            logged |-> FALSE, bareBefore |-> FALSE, bareInside |-> FALSE]

NoTrace ==
    /\ lastFetch = NoFetch
    /\ sinceRequest = "none"
    /\ listingRequests = 0
    /\ detailRequests = [k \in SiteKeys |-> 0]
    /\ everFailed = {}

\* None of the other programs is running.
NoCvCall ==
    /\ cv_site = << >>
    /\ cv_all_jobs = << >>

NoLikeCall ==
    /\ li_site = << >>
    /\ li_all_jobs = << >>
    /\ li_page = 1
    /\ li_seen = {}
    /\ li_jobs_out = << >>

NoDateCall ==
    /\ dt_page = << >>
    /\ dt_answer = << >>
    /\ dt_row = << >>
    /\ dt_fix = << >>

NoFixCall ==
    /\ fx_input = << >>
    /\ fx_pages = << >>
    /\ fx_disk = << >>
    /\ fx_processed = << >>

NoVdCall ==
    /\ vd_server = << >>
    /\ vd_requested = << >>
    /\ vd_all_jobs = << >>

NoCntCall ==
    /\ cnt_page_num = 1
    /\ cnt_pages_with_jobs = 0
    /\ cnt_answers = << >>

NoSalCall ==
    /\ sal_input = NoSalInput
    /\ sal_record = NoSalary

NoToolCall ==
    /\ NoCntCall
    /\ NoSalCall

NoLaterProgram ==
    /\ NoDateCall
    /\ NoFixCall
    /\ NoVdCall
    /\ NoToolCall
    /\ NoToolCall

NoOtherProgram ==
    /\ NoCvCall
    /\ NoLikeCall
    /\ NoLaterProgram

InitState ==
    /\ fileExists = FALSE
    /\ file = << >>
    /\ site = [c \in Categories |-> << >>]
    /\ runs = 0
    /\ existing_urls = {}
    /\ buf = << >>
    /\ cat = 1
    /\ new_urls = << >>
    /\ j = 0
    /\ cat_success = 0
    /\ cat_failed = 0
    /\ total_new = 0
    /\ page_num = 1
    /\ urls = << >>
    /\ seen_on_this_run = {}
    /\ reqPages = << >>
    /\ lastSoup = NoSoup
    /\ prevUrls = << >>
    /\ walkEnd = "none"
    /\ lastDetail = NoDetail
    /\ stageKnown = {}
    /\ killed = NoKill
    /\ cleanRun = TRUE
    /\ prevClean = FALSE

Init ==
    /\ InitState
    /\ pc = "idle"
    /\ NoGetPageCall
    /\ NoMergeCall
    /\ NoTrace
    /\ NoOtherProgram

Next ==
    \/ StartRun
    \/ ListingStep
    \/ BeginDetail
    \/ DetailStep
    \/ EndDetailStage
    \/ Terminate

Spec == Init /\ [][Next]_vars

NextResume ==
    \/ StartRun
    \/ ListingStepSite
    \/ BeginDetail
    \/ DetailStep
    \/ EndDetailStage

SpecResume == Init /\ [][NextResume]_vars

InitCollect ==
    /\ InitState
    /\ pc = "walk"
    /\ NoGetPageCall
    /\ NoMergeCall
    /\ NoTrace
    /\ NoOtherProgram

NextCollect ==
    \/ CollectCall
    \/ CollectStep

SpecCollect == InitCollect /\ [][NextCollect]_vars

InitGetPage ==
    /\ InitState
    /\ pc = "gp_call"
    /\ gp_transport \in Transports(MaxRetries)
    /\ gp_retries \in 0..MaxRetries
    /\ gp_result = NoResult
    /\ NoMergeCall
    /\ NoTrace
    /\ NoOtherProgram

NextGetPage == CallGetPage

SpecGetPage == InitGetPage /\ [][NextGetPage]_vars

InitMerge ==
    /\ InitState
    /\ pc = "merge_call"
    /\ NoGetPageCall
    /\ ss_rows \in SeqsUpTo(SsRecords, MaxRows)
    /\ cv_rows \in SeqsUpTo(CvRecords, MaxRows)
    /\ unique_rows = << >>
    /\ NoTrace
    /\ NoOtherProgram

NextMerge == MergeCall

SpecMerge == InitMerge /\ [][NextMerge]_vars

InitCv ==
    /\ InitState
    /\ pc = "cv_call"
    /\ NoGetPageCall
    /\ NoMergeCall
    /\ NoTrace
    /\ cv_site \in [Categories -> CvServers]
    /\ cv_all_jobs = << >>
    /\ NoLikeCall
    /\ NoLaterProgram

NextCv == CvCall

SpecCv == InitCv /\ [][NextCv]_vars

InitLike ==
    /\ InitState
    /\ pc = "li_call"
    /\ NoGetPageCall
    /\ NoMergeCall
    /\ NoTrace
    /\ NoCvCall
    /\ li_site \in [Categories -> SeqsUpTo(LikeRawJobs, MaxLikeJobs)]
    /\ li_all_jobs = << >>
    /\ li_page = 1
    /\ li_seen = {}
    /\ li_jobs_out = << >>
    /\ NoLaterProgram

NextLike == LikeCall

SpecLike == InitLike /\ [][NextLike]_vars

InitLikeWalk ==
    /\ InitState
    /\ pc = "li_walk"
    /\ NoGetPageCall
    /\ NoMergeCall
    /\ NoTrace
    /\ NoOtherProgram

NextLikeWalk ==
    \/ LikeWalkStep
    \/ LikeWalkCall

\* A walk that can go on does go on: the loop has no wait in it other than
\* the sleep of line 165.
SpecLikeWalk == InitLikeWalk /\ [][NextLikeWalk]_vars /\ WF_vars(LikeWalkStep)

InitSal ==
    /\ InitState
    /\ pc = "sal_parse"
    /\ NoGetPageCall
    /\ NoMergeCall
    /\ NoTrace
    /\ NoOtherProgram

NextSal ==
    \/ VdSalaryCall
    \/ CvSalaryCall
    \/ LikeSalaryCall

SpecSal == InitSal /\ [][NextSal]_vars

InitCnt ==
    /\ InitState
    /\ pc = "cnt_loop"
    /\ NoGetPageCall
    /\ NoMergeCall
    /\ NoTrace
    /\ NoOtherProgram

NextCnt ==
    \/ CntStep
    \/ CntCall

SpecCnt == InitCnt /\ [][NextCnt]_vars

InitVd ==
    /\ InitState
    /\ pc = "vd_call"
    /\ NoGetPageCall
    /\ NoMergeCall
    /\ NoTrace
    /\ NoCvCall
    /\ NoLikeCall
    /\ NoDateCall
    /\ NoFixCall
    /\ NoToolCall
    /\ vd_server \in [{ 1 } -> VdServers]
    /\ vd_requested = << >>
    /\ vd_all_jobs = << >>

NextVd == VdCall

SpecVd == InitVd /\ [][NextVd]_vars

InitFix ==
    /\ InitState
    /\ pc = "fx_call"
    /\ NoGetPageCall
    /\ NoMergeCall
    /\ NoTrace
    /\ NoCvCall
    /\ NoLikeCall
    /\ NoDateCall
    /\ NoVdCall
    /\ NoToolCall
    /\ fx_input \in SeqsUpTo(FixInputRows, MaxFixRows)
    /\ fx_pages \in [1..Len(fx_input) -> FixPages]
    /\ fx_disk = [path \in { INPUT, OUTPUT } |->
                     IF path = INPUT THEN fx_input ELSE << >>]
    /\ fx_processed = << >>

NextFix ==
    \/ FixCall
    \/ ProcessCall

SpecFix == InitFix /\ [][NextFix]_vars

InitDate ==
    /\ InitState
    /\ pc = "dt_call"
    /\ NoGetPageCall
    /\ NoMergeCall
    /\ NoTrace
    /\ NoCvCall
    /\ NoLikeCall
    /\ NoFixCall
    /\ NoVdCall
    /\ NoToolCall
    /\ dt_page \in [{ 1 } -> DetailPages]
    /\ dt_answer \in [{ 1 } -> FixPages]
    /\ dt_row = << >>
    /\ dt_fix = << >>

NextDate ==
    \/ DetailRowCall
    \/ FixDateCall

SpecDate == InitDate /\ [][NextDate]_vars

\* Runs and kills as in Spec, with the urls whose detail fetch failed kept
\* in view.
DetailRetry ==
    /\ \E got \in GetPageAnswers :
          /\ DetailIteration(got)
          /\ everFailed' = IF ScrapeJobDetail(got, new_urls[j + 1]).none
                           THEN everFailed \cup { new_urls[j + 1] }
                           ELSE everFailed
    /\ UNCHANGED << gpVars, mergeVars, otherVars, lastFetch, sinceRequest,
                    listingRequests, detailRequests >>

NextRetry ==
    \/ StartRun
    \/ ListingStepSite
    \/ BeginDetail
    \/ DetailRetry
    \/ EndDetailStage
    \/ Terminate

SpecRetry == Init /\ [][NextRetry]_vars

\* The same without kills.
NextRetryNoKill ==
    \/ StartRun
    \/ ListingStepSite
    \/ BeginDetail
    \/ DetailRetry
    \/ EndDetailStage

SpecRetryNoKill == Init /\ [][NextRetryNoKill]_vars

\* One detail stage with the transport in view.  The process is the first
\* run on a fresh disk; the walk of its first category listed the urls of
\* `list` on page 1, found page 2 empty, and the detail stage has begun.
DetailLists ==
    { l \in SeqsUpTo(SiteKeys, MaxLinks) :
        l # << >> /\ \A a, b \in 1..Len(l) : l[a] = l[b] => a = b }

InitDetail ==
    /\ fileExists = TRUE
    /\ file = << >>
    /\ buf = << Header >>
    /\ site = [c \in Categories |-> << >>]
    /\ runs = 1
    /\ pc = "detail"
    /\ existing_urls = {}
    /\ cat = 1
    /\ \E list \in DetailLists :
          /\ urls = list
          /\ new_urls = list
          /\ prevUrls = list
          /\ seen_on_this_run = Range(list)
    /\ j = 0
    /\ cat_success = 0
    /\ cat_failed = 0
    /\ total_new = 0
    /\ page_num = 2
    /\ reqPages = << 1, 2 >>
    /\ lastSoup = Soup(TRUE, << >>)
    /\ walkEnd = "empty"
    /\ lastDetail = NoDetail
    /\ stageKnown = {}
    /\ killed = NoKill
    /\ cleanRun = TRUE
    /\ prevClean = FALSE
    /\ NoGetPageCall
    /\ NoMergeCall
    /\ NoTrace
    /\ NoOtherProgram

\* The iteration of the detail loop with the get_page call of
\* scrape_job_detail (line 146, default budget) played against a transport.
DetailFetch ==
    /\ \E t \in Transports(DEFAULT_RETRIES) :
          /\ gp_transport' = t
          /\ gp_retries' = DEFAULT_RETRIES
          /\ gp_result' = GetPage(t, DEFAULT_RETRIES)
          /\ DetailIteration(GetPage(t, DEFAULT_RETRIES).page # 0)
    /\ UNCHANGED << mergeVars, traceVars, otherVars >>

NextDetail ==
    \/ DetailFetch
    \/ EndDetailStage

SpecDetail == InitDetail /\ [][NextDetail]_vars

\* One run of run_scraper with every get_page call played against a
\* transport, and with what the call logged and where the process slept in
\* view.  sinceRequest is "bare" when no time.sleep has run since the last
\* requests.get, "delayed" when one has.

\* All attempts of the call were used up by error statuses and exceptions.
Exhausted(t) == \A i \in 1..DEFAULT_RETRIES : t[i] \in { "status", "exc" }

\* Two requests of the call with no sleep between them.
BareInside(ev) == \E i \in 2..Len(ev) : ev[i] = "request" /\ ev[i - 1] # "sleep"

AfterCall(ev) == IF ev[Len(ev)] = "sleep" THEN "delayed" ELSE "bare"

\* What is seen of one get_page call; logged_by_caller is the logging.error
\* of line 247.
FetchSeen(stage, t, logged_by_caller) ==
    LET r == GetPage(t, DEFAULT_RETRIES) IN
    [stage |-> stage,
     requests |-> r.requests,
     failed |-> r.page = 0,
     exhausted |-> r.page = 0 /\ Exhausted(t),
     logged |-> "log" \in Range(r.events) \/ logged_by_caller,
     bareBefore |-> sinceRequest = "bare",
     bareInside |-> BareInside(r.events)]

StartFirstRun ==
    /\ runs = 0
    /\ StartRun

\* One iteration of the page loop (lines 97-130): get_page (line 103), the
\* scan, and time.sleep(DELAY_INDEX) (line 130) when no break was taken.
ListingFetch ==
    /\ \E t \in Transports(DEFAULT_RETRIES), links \in ResumeListings :
          LET r == GetPage(t, DEFAULT_RETRIES) IN
          /\ CollectPage(Soup(r.page # 0, links))
          /\ cleanRun' = (cleanRun /\ r.page # 0)
          /\ lastFetch' = FetchSeen("listing", t, FALSE)
          /\ UNCHANGED << listingRequests, detailRequests, everFailed >>
          /\ sinceRequest' = IF walkEnd' \in { "none", "max" }
                             THEN "delayed" ELSE AfterCall(r.events)
    /\ UNCHANGED << fileVars, site, runs, runVars, lastDetail, stageKnown,
                    killed, prevClean, gpVars, mergeVars, otherVars >>

\* One iteration of the detail loop (lines 243-267): get_page (line 146),
\* logging.error (line 247) when scrape_job_detail handed back None, and
\* time.sleep(DELAY_DETAIL) (line 267).
DetailFetchSeen ==
    /\ \E t \in Transports(DEFAULT_RETRIES) :
          LET got == GetPage(t, DEFAULT_RETRIES).page # 0 IN
          /\ DetailIteration(got)
          /\ lastFetch' = FetchSeen("detail", t,
                                    ScrapeJobDetail(got, new_urls[j + 1]).none)
          /\ UNCHANGED << listingRequests, detailRequests, everFailed >>
          /\ sinceRequest' = "delayed"
    /\ UNCHANGED << gpVars, mergeVars, otherVars >>

\* One run of run_scraper from an empty disk, the process left to run: a
\* step of the run that can be taken is taken.
RunStep ==
    \/ ListingStep
    \/ BeginDetail
    \/ DetailStep
    \/ EndDetailStage

NextRun ==
    \/ StartFirstRun
    \/ RunStep

SpecRun == Init /\ [][NextRun]_vars /\ WF_vars(RunStep)

NextTrace ==
    \/ StartFirstRun
    \/ ListingFetch
    \/ BeginDetail
    \/ DetailFetchSeen
    \/ EndDetailStage

SpecTrace == Init /\ [][NextTrace]_vars

\* One run of run_scraper with the requests.get calls counted.

\* What is counted of one get_page call.
FetchCounted(stage, r) ==
    [NoFetch EXCEPT !.stage = stage, !.requests = r.requests,
                    !.failed = (r.page = 0)]

\* One iteration of the page loop (lines 97-130); the count starts anew
\* with the first page of a walk.
ListingCount ==
    /\ \E t \in Transports(DEFAULT_RETRIES), links \in ResumeListings :
          LET r == GetPage(t, DEFAULT_RETRIES) IN
          /\ CollectPage(Soup(r.page # 0, links))
          /\ cleanRun' = (cleanRun /\ r.page # 0)
          /\ lastFetch' = FetchCounted("listing", r)
          /\ listingRequests' = IF reqPages = << >> THEN r.requests
                                ELSE listingRequests + r.requests
    /\ UNCHANGED << fileVars, site, runs, runVars, lastDetail, stageKnown,
                    killed, prevClean, gpVars, mergeVars, otherVars,
                    sinceRequest, detailRequests, everFailed >>

\* One iteration of the detail loop (lines 243-267).
DetailCount ==
    /\ \E t \in Transports(DEFAULT_RETRIES) :
          LET r == GetPage(t, DEFAULT_RETRIES) IN
          /\ DetailIteration(r.page # 0)
          /\ lastFetch' = FetchCounted("detail", r)
          /\ detailRequests' = [detailRequests EXCEPT
                                  ![new_urls[j + 1]] = @ + r.requests]
    /\ UNCHANGED << gpVars, mergeVars, otherVars, sinceRequest,
                    listingRequests, everFailed >>

\* Every requests.get returns (timeout=15 bounds the wait), so a step of
\* the run that can be taken is taken.
BudgetStep ==
    \/ ListingCount
    \/ BeginDetail
    \/ DetailCount
    \/ EndDetailStage

NextBudget ==
    \/ StartFirstRun
    \/ BudgetStep

SpecBudget == Init /\ [][NextBudget]_vars /\ WF_vars(BudgetStep)

----------------------------------------------------------------------------
(* Vocabulary of the properties *)

\* The listing page the walk requested last, and what it held.
LastPage == reqPages[Len(reqPages)]
Served == reqPages # << >> /\ lastSoup.ok
CandidateAt(i) == lastSoup.links[i][1] \in { "rel", "abs" }
KeyAt(i) == lastSoup.links[i][2]
CandidateIdx == { i \in 1..Len(lastSoup.links) : CandidateAt(i) }
\* Candidates whose key the walk had not seen on the pages before, first
\* occurrences only.
UnseenIdx ==
    { i \in CandidateIdx :
        /\ \A m \in 1..Len(prevUrls) : prevUrls[m] # KeyAt(i)
        /\ \A m \in CandidateIdx : m < i => KeyAt(m) # KeyAt(i) }

RECURSIVE UnseenFrom(_)
UnseenFrom(i) ==
    IF i > Len(lastSoup.links) THEN << >>
    ELSE (IF i \in UnseenIdx THEN << KeyAt(i) >> ELSE << >>) \o UnseenFrom(i + 1)

\* The unseen keys of the last page, in page order.
UnseenKeys == UnseenFrom(1)

InOrder == reqPages = Iota(Len(reqPages))

----------------------------------------------------------------------------
(* Properties of collect_urls_for_category, under SpecCollect *)

\* C5: when the page requested last was served and holds no candidate link,
\* the walk has returned, the pages it requested are exactly 1..k in order,
\* and its result is what it had before that page.
C5_EmptyPageStops ==
    (Served /\ CandidateIdx = {}) =>
        /\ pc = "returned"
        /\ InOrder
        /\ urls = prevUrls

\* Page k >= 2 was served empty after k-1 pages with new keys.
C5_Witness ==
    /\ Served /\ CandidateIdx = {}
    /\ pc = "returned"
    /\ Len(reqPages) >= 2
    /\ Len(urls) >= Len(reqPages) - 1

\* C6: when every candidate of the page requested last was already collected
\* from the pages before it, the walk has returned after that page, having
\* requested pages 1..k only, and the page added nothing to the result.
C6_AllDuplicateStops ==
    (Served /\ CandidateIdx # {} /\ UnseenIdx = {}) =>
        /\ pc = "returned"
        /\ InOrder
        /\ urls = prevUrls

\* Page k >= 2 repeated keys of the earlier pages only.
C6_Witness ==
    /\ Served /\ CandidateIdx # {} /\ UnseenIdx = {}
    /\ pc = "returned"
    /\ Len(reqPages) >= 2

\* C7: a served page p < MAX_PAGES with at least one unseen key adds exactly
\* its unseen keys, in page order, and the loop goes on to page p + 1; a
\* served page p < MAX_PAGES ends the walk only when it has no unseen key.
C7_MixedPageContinues ==
    (Served /\ LastPage < MAX_PAGES) =>
        /\ UnseenIdx # {} =>
              /\ pc = "walk"
              /\ page_num = LastPage + 1
              /\ urls = prevUrls \o UnseenKeys
        /\ pc = "returned" => UnseenIdx = {}

\* A page holding both a key seen on an earlier page and an unseen one.
C7_Witness ==
    /\ Served /\ LastPage < MAX_PAGES
    /\ pc = "walk"
    /\ UnseenIdx # {}
    /\ \E i \in CandidateIdx : \E m \in 1..Len(prevUrls) : prevUrls[m] = KeyAt(i)

\* C8: no listing page above MAX_PAGES is ever requested, also after page
\* MAX_PAGES brought new keys: the walk has then returned.
C8_MaxPagesCeiling ==
    /\ \A i \in 1..Len(reqPages) : reqPages[i] <= MAX_PAGES
    /\ pc = "walk" => page_num <= MAX_PAGES
    /\ (Served /\ LastPage = MAX_PAGES) => pc = "returned"

\* Page MAX_PAGES was served with an unseen key.
C8_Witness ==
    /\ Served /\ LastPage = MAX_PAGES
    /\ UnseenIdx # {}
    /\ pc = "returned"

----------------------------------------------------------------------------
(* Properties of get_page, under SpecGetPage *)

\* The first of the first n attempts that the transport answers with 200.
OkAttempts(n) == { i \in 1..n : gp_transport[i] = "ok" }
FirstOk(n) ==
    IF OkAttempts(n) = {} THEN 0
    ELSE CHOOSE i \in OkAttempts(n) : \A m \in OkAttempts(n) : i <= m

FinalAttempts(n) == { i \in 1..n : gp_transport[i] \in { "ok", "notfound" } }
FirstFinal(n) ==
    IF FinalAttempts(n) = {} THEN 0
    ELSE CHOOSE i \in FinalAttempts(n) : \A m \in FinalAttempts(n) : i <= m
Hit404(n) == FirstFinal(n) # 0 /\ gp_transport[FirstFinal(n)] = "notfound"

----------------------------------------------------------------------------
(* Properties of run_scraper *)

Running == pc \in { "walk", "returned", "detail" }

\* The data rows of the artifact that carry url k.
RowsOf(k) == { i \in 1..Len(file) : file[i].kind = "row" /\ file[i].url = k }

NoUrlTwice == \A k \in SiteKeys : Cardinality(RowsOf(k)) <= 1

\* C3: whatever runs, kills and transport failures came before, no url is in
\* more than one data row of the artifact.
C3_NoDuplicateRows == NoUrlTwice

\* C2: a process was ended after the row of k1 reached the disk and before
\* the row of the next key k2 did.  The run that follows does not take k2 for
\* known when it starts, and when it has completed the artifact holds the row
\* of k1 exactly once.
C2_CrashSafeAppend ==
    killed.k1 # 0 =>
        /\ (Running /\ total_new = 0) => killed.k2 \notin existing_urls
        /\ pc = "done" => Cardinality(RowsOf(killed.k1)) = 1

\* C4: a url for which a detail request is issued was not in the known set
\* when the detail stage of its category started, nor when the request was
\* issued.
C4_ResumeSkip ==
    lastDetail.url # 0 =>
        /\ lastDetail.url \notin stageKnown
        /\ ~lastDetail.known

\* A detail stage that requests one listed url and skips another, known one.
C4_Witness ==
    /\ pc = "detail"
    /\ lastDetail.url # 0
    /\ \E i \in 1..Len(urls) : urls[i] \in stageKnown

\* The urls of a list that are not in the known set, in list order.
UnknownOf(list, known) ==
    LET idx == { i \in 1..Len(list) : list[i] \notin known }
        Nth[n \in 0..Len(list)] ==
            IF n = 0 THEN 0
            ELSE CHOOSE i \in idx : i > Nth[n - 1] /\ \A m \in idx : m > Nth[n - 1] => i <= m
    IN  [n \in 1..Cardinality(idx) |-> list[Nth[n]]]

\* The walk of the current category ended on a failed listing fetch.
WalkAborted == reqPages # << >> /\ ~lastSoup.ok /\ pc \in { "walk", "returned" }

\* C9: when the fetch of listing page p fails, the walk has returned without
\* a later request and with the keys it had before page p; run_scraper then
\* goes on with those keys (the detail stage of the unknown ones) or, when
\* none is new, with the next category or the end of the run.
C9_ListingAbort ==
    /\ [](WalkAborted => ( /\ pc = "returned"
                           /\ InOrder
                           /\ urls = prevUrls ))
    /\ [][ (WalkAborted /\ pc' # "killed") =>
              /\ new_urls' = UnknownOf(urls, existing_urls)
              /\ IF new_urls' # << >> THEN pc' = "detail" /\ cat' = cat /\ j' = 0
                 ELSE IF cat < NumCategories THEN pc' = "walk" /\ cat' = cat + 1
                 ELSE pc' = "done" ]_vars

\* Page p >= 2 failed and the keys of the pages before it are being fetched.
C9_Witness ==
    /\ pc = "detail"
    /\ walkEnd = "failed"
    /\ Len(reqPages) >= 2
    /\ new_urls # << >>
    /\ cat < NumCategories

\* C1: after a run that completed with every fetch succeeding, the next run
\* changes nothing in the artifact and adds no row, and no url is in more
\* than one row.
C1_IdempotentResume ==
    /\ [](prevClean => NoUrlTwice /\ (Running => total_new = 0))
    /\ [][prevClean => file' = file]_vars

\* The second run, after a clean first one that wrote rows, has listed the
\* urls of its last category again.
C1_Witness ==
    /\ prevClean
    /\ runs = 2
    /\ pc = "returned"
    /\ cat = NumCategories
    /\ urls # << >>
    /\ Len(file) >= 3

----------------------------------------------------------------------------
(* Properties of get_page inside the detail loop, under SpecDetail *)

\* The detail loop has just handled a url; gp_transport and gp_result are
\* the transport and the result of that url's get_page call.
Fetched == lastDetail.url # 0

\* C11: when an attempt answers 404, get_page returns None with that attempt
\* as its last request, whatever is left of the budget; nothing is written
\* for the url, and the detail loop stands at the next key of the category.
C11_NotFoundTerminal ==
    (Fetched /\ Hit404(gp_retries)) =>
        /\ gp_result.page = 0
        /\ gp_result.requests = FirstFinal(gp_retries)
        /\ ~lastDetail.got
        /\ pc = "detail"
        /\ j <= Len(new_urls)
        /\ new_urls[j] = lastDetail.url
        /\ lastDetail.url \notin existing_urls

\* A 404 on the first attempt for the first of two urls: two attempts of the
\* budget are left and the second url is still to be fetched.
C11_Witness ==
    /\ Fetched
    /\ gp_transport[1] = "notfound"
    /\ gp_result.requests = 1
    /\ pc = "detail"
    /\ j = 1
    /\ Len(new_urls) = 2

----------------------------------------------------------------------------
(* Further properties of get_page, under SpecGetPage *)

\* The attempts get_page comes to: those up to the first 200 or 404, or all
\* n when there is none.
LastAttempt(n) == IF FirstFinal(n) = 0 THEN n ELSE FirstFinal(n)

\* C12: an answer whose status is neither 200 nor 404 does not end the call:
\* while budget is left the request is issued again, up to the first attempt
\* that succeeds; when the budget is used up without a 200 or a 404 the call
\* returns None after n requests.
C12_StatusRetried ==
    pc = "gp_return" =>
        LET n == gp_retries
            r == gp_result
        IN  /\ \A i \in 1..LastAttempt(n) :
                  (gp_transport[i] = "status" /\ i < n) => r.requests >= i + 1
            /\ (FirstFinal(n) # 0 /\ gp_transport[FirstFinal(n)] = "ok")
                  => r.page = FirstFinal(n) /\ r.requests = FirstFinal(n)
            /\ FirstFinal(n) = 0 => r.page = 0 /\ r.requests = n

\* Three attempts answered by a server error, with a budget of three.
C12_Witness ==
    /\ pc = "gp_return"
    /\ gp_retries = 3
    /\ \A i \in 1..3 : gp_transport[i] = "status"
    /\ gp_result.requests = 3
    /\ gp_result.page = 0

\* C13: within one call, every request after the first comes right after a
\* backoff sleep, whatever kind of failure the attempt before it was.
C13_BackoffEveryRetry ==
    pc = "gp_return" =>
        \A i \in 2..Len(gp_result.events) :
            gp_result.events[i] = "request" => gp_result.events[i - 1] = "sleep"

----------------------------------------------------------------------------
(* Properties of the detail loop of run_scraper, under Spec *)

\* C14: an iteration of the detail loop whose fetch failed appends no row,
\* leaves the buffer, the artifact and the known set as they were, adds one
\* to the failed count and leaves the loop at the next key of the category.
C14_DetailFailureTolerated ==
    [][ (pc = "detail" /\ j' = j + 1 /\ ~lastDetail'.got) =>
            /\ lastDetail'.url = new_urls[j + 1]
            /\ file' = file
            /\ buf' = buf
            /\ existing_urls' = existing_urls
            /\ cat_failed' = cat_failed + 1
            /\ cat_success' = cat_success
            /\ total_new' = total_new
            /\ pc' = "detail"
            /\ new_urls' = new_urls ]_vars

\* The fetch of the first of two new urls has failed; the second is next.
C14_Witness ==
    /\ pc = "detail"
    /\ lastDetail.url # 0
    /\ ~lastDetail.got
    /\ cat_failed = 1
    /\ j = 1
    /\ Len(new_urls) = 2

\* C15: no row of the artifact lacks a required field: a detail page from
\* which the title, the posted date or the description cannot be extracted
\* gives no row.
C15_NoHalfPopulatedRow ==
    \A i \in 1..Len(file) :
        file[i].kind = "row" =>
            /\ file[i].title # ""
            /\ file[i].posted_date # ""
            /\ file[i].description # ""

\* C16: when the fetch of a key has succeeded and the loop stands before the
\* request for the next key, the row of the fetched key is the last line of
\* the artifact on disk, nothing is left in the write buffer, and the key is
\* in the known set.
C16_PersistBeforeNextFetch ==
    (pc = "detail" /\ lastDetail.url # 0 /\ lastDetail.got) =>
        /\ buf = << >>
        /\ file # << >>
        /\ file[Len(file)].kind = "row"
        /\ file[Len(file)].url = lastDetail.url
        /\ lastDetail.url \in existing_urls

\* The first of two new urls has been fetched; the second is still to come.
C16_Witness ==
    /\ pc = "detail"
    /\ lastDetail.got
    /\ j = 1
    /\ Len(new_urls) = 2
    /\ lastDetail.url = new_urls[1]

IsPrefix(a, b) == Len(a) <= Len(b) /\ SubSeq(b, 1, Len(a)) = a

\* The data rows of an artifact, in file order.
DataRows(f) == SelectSeq(f, LAMBDA l : l.kind = "row")

\* C17: every step leaves what was in the artifact in place and at most adds
\* lines behind it; an iteration of the detail loop whose fetch succeeded
\* adds exactly one data row, that of the fetched url, and no other step
\* adds a data row.
C17_AppendOnly ==
    [][ /\ IsPrefix(file, file')
        /\ IF pc = "detail" /\ j' = j + 1 /\ lastDetail'.got
           THEN /\ Len(DataRows(file')) = Len(DataRows(file)) + 1
                /\ file'[Len(file')].kind = "row"
                /\ file'[Len(file')].url = new_urls[j + 1]
           ELSE DataRows(file') = DataRows(file) ]_vars

\* A second data row has just been appended behind the first.
C17_Witness ==
    /\ pc = "detail"
    /\ lastDetail.got
    /\ Len(DataRows(file)) = 2
    /\ file[Len(file)].url = lastDetail.url

\* C18: whatever runs and kills came before, an artifact that is not empty
\* has the column header as its first line, and has it once.
C18_HeaderFirst ==
    file # << >> =>
        /\ file[1].kind = "header"
        /\ Cardinality({ i \in 1..Len(file) : file[i].kind = "header" }) = 1

----------------------------------------------------------------------------
(* Properties of merge_and_save, under SpecMerge *)

all_rows == ss_rows \o cv_rows

\* Where a url occurs in a list of rows, and where it occurs first.
IdxOf(rows, u) == { i \in 1..Len(rows) : rows[i].url = u }
FirstIdx(rows, u) == CHOOSE i \in IdxOf(rows, u) : \A m \in IdxOf(rows, u) : i <= m

\* C19: for every url that occurs in the input, however often, the output
\* has exactly one record, and it is the first record of that url in
\* processing order (ss.lv rows before cv.lv rows), field for field.
C19_FirstSeenWins ==
    pc = "merge_done" =>
        \A u \in MergeUrls \ { NoUrl } :
            IdxOf(all_rows, u) # {} =>
                /\ Cardinality(IdxOf(unique_rows, u)) = 1
                /\ unique_rows[FirstIdx(unique_rows, u)]
                      = all_rows[FirstIdx(all_rows, u)]

\* An ss.lv row and a cv.lv row with the same url and different titles.
C19_Witness ==
    /\ pc = "merge_done"
    /\ ss_rows = << [source |-> "ss.lv", url |-> 1, title |-> "T1"] >>
    /\ cv_rows = << [source |-> "cv.lv", url |-> 1, title |-> "T2"] >>
    /\ unique_rows = ss_rows

\* C20: an input record without a url is not lost: the first such record is
\* in the merged output.
C20_NoUrlRetained ==
    pc = "merge_done" =>
        ( IdxOf(all_rows, NoUrl) # {} =>
            \E k \in 1..Len(unique_rows) :
                unique_rows[k] = all_rows[FirstIdx(all_rows, NoUrl)] )

----------------------------------------------------------------------------
(* Properties of the cv.lv scraper, under SpecCv *)

\* C21: the dataset of scrape_all_categories has no two records with the
\* same id.
C21_CvIdUnique ==
    pc = "cv_done" =>
        \A a, b \in 1..Len(cv_all_jobs) :
            cv_all_jobs[a].id = cv_all_jobs[b].id => a = b

----------------------------------------------------------------------------
(* Properties of the likeit.lv scraper *)

\* The jobs the site listed, parsed, in the order scrape_all comes to them.
RECURSIVE LikeListed(_)
LikeListed(c) ==
    IF c > Len(li_site) THEN << >>
    ELSE [i \in 1..Len(li_site[c]) |-> LikeParseJob(li_site[c][i], c)]
         \o LikeListed(c + 1)

LikeJids(jobs) == { LikeJid(jobs[i]) : i \in 1..Len(jobs) }
LikeIdx(jobs, jid) == { i \in 1..Len(jobs) : LikeJid(jobs[i]) = jid }
LikeFirst(jobs, jid) ==
    jobs[CHOOSE i \in LikeIdx(jobs, jid) : \A m \in LikeIdx(jobs, jid) : i <= m]

\* C22 (under SpecLike): the output of scrape_all has one record for every
\* identity the site listed and none twice, and the record is the first one
\* listed with that identity - that of the earliest category - as parsed.
C22_LikeFirstCategoryWins ==
    pc = "li_done" =>
        /\ LikeJids(li_all_jobs) = LikeJids(LikeListed(1))
        /\ \A jid \in LikeJids(li_all_jobs) :
              /\ Cardinality(LikeIdx(li_all_jobs, jid)) = 1
              /\ LikeFirst(li_all_jobs, jid) = LikeFirst(LikeListed(1), jid)

\* A job with an id and a job without one, both listed in both categories.
C22_Witness ==
    /\ pc = "li_done"
    /\ li_site[1] = << [id |-> 1, slug |-> 0], [id |-> 0, slug |-> 1] >>
    /\ li_site[2] = << [id |-> 0, slug |-> 1], [id |-> 1, slug |-> 1] >>
    /\ Len(li_all_jobs) = 2
    /\ li_all_jobs[1].category = 1
    /\ li_all_jobs[2].category = 1

\* C30 (under SpecLikeWalk): every walk of scrape_category comes to its end,
\* whatever the server answers.
C30_LikeWalkTerminates == [](pc = "li_walk" => <>(pc = "li_returned"))

----------------------------------------------------------------------------
(* Properties of the error log and of the delays of run_scraper *)

\* C23 (under SpecTrace): a get_page call of a run, for a listing page or a
\* detail page, that ends without a page after using up its attempts on
\* exceptions and error statuses leaves an entry in the error log.
C23_FailureLogged ==
    lastFetch.exhausted => lastFetch.logged

\* C25 (under SpecTrace): a sleep lies between any two consecutive requests
\* of a run: between the attempts of one get_page call, and between the last
\* request of a call and the first of the next.
C25_DelayBetweenRequests ==
    ~lastFetch.bareBefore /\ ~lastFetch.bareInside

----------------------------------------------------------------------------
(* Properties of the dates and of the backfill pass *)

IsoDates == { "2025-01-01", "2025-02-12" }
ValidDate(d) == d = "" \/ d \in IsoDates

\* C24 (under SpecDate): the posted_date of a row written from a detail page,
\* and the date fix derives for the backfill, is empty or an ISO 8601 date.
C24_DateValid ==
    /\ dt_row # << >> => ValidDate(dt_row[1].posted_date)
    /\ dt_fix # << >> => ValidDate(dt_fix[1].date)

\* What the claim allows a backfilled list of rows to be, for the input and
\* the re-fetched pages of the run.
Backfilled(out) ==
    /\ Len(out) = Len(fx_input)
    /\ \A i \in 1..Len(out) :
          /\ out[i].url = fx_input[i].url
          /\ out[i].category = fx_input[i].category
          /\ out[i].scraped_date = fx_input[i].scraped_date
          /\ out[i].description = fx_input[i].description
          /\ out[i].title # ""
          /\ out[i].title # fx_input[i].title =>
                fx_pages[i].ok /\ out[i].title = fx_pages[i].profesija
          /\ out[i].posted_date # fx_input[i].posted_date =>
                fx_pages[i].ok /\ fx_pages[i].datums /\ out[i].posted_date # ""

----------------------------------------------------------------------------
(* Properties of the known urls and of the counts of run_scraper *)

UrlsOf(rows) == { rows[i].url : i \in 1..Len(rows) }

\* C27: while run_scraper runs - after load_existing_urls and between any
\* two detail iterations - the known set existing_urls is the set of the urls
\* of the data rows that are in the artifact.
C27_KnownTracksArtifact ==
    Running => existing_urls = UrlsOf(DataRows(file))

\* The data rows the current run has appended, and those of its category.
RunRows == { i \in 1..Len(file) :
               file[i].kind = "row" /\ file[i].scraped_date = runs }
CatRows == { i \in RunRows : file[i].category = cat }

StageEnd == pc = "detail" /\ j = Len(new_urls)

CountsRight ==
    /\ StageEnd => /\ cat_success + cat_failed = Len(new_urls)
                   /\ cat_success = Cardinality(CatRows)
                   /\ total_new = Cardinality(RunRows)
    /\ pc = "done" => total_new = Cardinality(RunRows)

\* C28 (under SpecRun): whichever detail fetches fail, the run comes to its
\* end; at the end of every category's detail stage cat_success + cat_failed
\* is the number of new urls of the category, cat_success the number of rows
\* appended for it, and total_new the number of rows appended in the run.
C28_PartialResultsCounted ==
    /\ [](CountsRight)
    /\ [](Running => <>(pc = "done"))

\* A stage of two new urls ends with one row written and one failure.
C28_Witness ==
    /\ StageEnd
    /\ Len(new_urls) = 2
    /\ cat_success = 1
    /\ cat_failed = 1
    /\ total_new = 1

----------------------------------------------------------------------------
(* Properties of the visidarbi.lv scraper, under SpecVd *)

\* C29: when the fetch of a listing page p >= 2 fails, scrape_all requests
\* no page after p.
C29_VdAbortOnFailure ==
    pc = "vd_done" =>
        \A a \in 1..Len(vd_requested) :
            LET p == vd_requested[a] IN
            (p >= 2 /\ ~vd_server[1].pages[p].ok) => a = Len(vd_requested)

----------------------------------------------------------------------------
(* Properties of the run's length and of its request budget, under SpecBudget *)

\* Every get_page call makes at most `retries` requests, and a category's
\* walk at most MAX_PAGES calls.
BudgetPerFetch ==
    /\ lastFetch.requests <= DEFAULT_RETRIES
    /\ listingRequests <= MAX_PAGES * DEFAULT_RETRIES

\* C31, as stated: a run comes to its final summary, with at most
\* MAX_PAGES * retries listing requests for every category and at most
\* retries requests for every detail url.
C31_RunTerminatesAsStated ==
    /\ [](Running => <>(pc = "done"))
    /\ [](BudgetPerFetch)
    /\ [](\A k \in SiteKeys : detailRequests[k] <= DEFAULT_RETRIES)

\* C31, amended: a run comes to its final summary, with at most
\* MAX_PAGES * retries listing requests for every category, at most retries
\* requests for every detail fetch, and for a url at most retries requests
\* for every category that lists it.
C31_RunTerminates ==
    /\ [](Running => <>(pc = "done"))
    /\ [](BudgetPerFetch)
    /\ [](\A k \in SiteKeys :
            detailRequests[k] <= NumCategories * DEFAULT_RETRIES)

\* A finished run that used the whole listing budget of a category and the
\* whole budget of a detail fetch.
C31_Witness ==
    /\ pc = "done"
    /\ listingRequests = MAX_PAGES * DEFAULT_RETRIES
    /\ \E k \in SiteKeys : detailRequests[k] = DEFAULT_RETRIES

----------------------------------------------------------------------------
(* Properties of the retry of failed urls by later runs, under SpecRetry *)

\* The urls the running detail stage has still to fetch.
Pending == { new_urls[i] : i \in (j + 1)..Len(new_urls) }

\* C32: a url whose detail fetch failed is not taken for known, so a later
\* stage that lists it fetches it; once fetched it is in the artifact, and
\* it is there exactly once.
C32_FailedKeyRetriedOnce ==
    \A k \in everFailed :
        /\ RowsOf(k) = {} => k \notin existing_urls
        /\ (pc = "detail" /\ k \in Range(urls) /\ k \notin stageKnown) =>
               k \in Range(new_urls)
        /\ Cardinality(RowsOf(k)) <= 1

----------------------------------------------------------------------------
(* Properties of the list collect_urls_for_category builds, under SpecCollect *)

NoDuplicate(list) == \A a, b \in 1..Len(list) : list[a] = list[b] => a = b

\* C33: the list of a walk holds every discovered key once, in the order of
\* first discovery: pages in their order, and of a page its keys not yet
\* held, in link order.  So the urls the detail stage takes from it,
\* whatever is known, hold no key twice.
C33_DuplicateFreeList ==
    /\ NoDuplicate(urls)
    /\ Range(urls) = seen_on_this_run
    /\ reqPages # << >> =>
          urls = IF Served /\ CandidateIdx # {}
                 THEN prevUrls \o UnseenKeys ELSE prevUrls
    /\ \A known \in SUBSET Keys : NoDuplicate(NewUrls(urls, known))

\* The second page repeats the key of the first and brings a new one.
C33_Witness ==
    /\ pc = "walk"
    /\ Len(reqPages) = 2
    /\ Len(lastSoup.links) = 2
    /\ Len(prevUrls) = 1
    /\ Len(urls) = 2
    /\ CandidateAt(1) /\ KeyAt(1) = prevUrls[1]
    /\ CandidateAt(2) /\ KeyAt(2) # prevUrls[1]

----------------------------------------------------------------------------
(* merge_and_save as a filter, under SpecMerge *)

\* a is b with some of its elements left out.
RECURSIVE IsSubsequence(_, _)
IsSubsequence(a, b) ==
    IF a = << >> THEN TRUE
    ELSE IF b = << >> THEN FALSE
    ELSE IF Head(a) = Head(b) THEN IsSubsequence(Tail(a), Tail(b))
    ELSE IsSubsequence(a, Tail(b))

\* C34: the output of merge_and_save is ss_rows followed by cv_rows with
\* some records left out and none changed, no two of its records have the
\* same url, and merging it again gives it back.
C34_MergeIsFilter ==
    pc = "merge_done" =>
        /\ IsSubsequence(unique_rows, all_rows)
        /\ \A a, b \in 1..Len(unique_rows) :
              unique_rows[a].url = unique_rows[b].url => a = b
        /\ MergeAndSave(unique_rows, << >>) = unique_rows
        /\ MergeAndSave(<< >>, unique_rows) = unique_rows

\* Both sources repeat a url of their own and share one.
C34_Witness ==
    /\ pc = "merge_done"
    /\ Len(ss_rows) = 2 /\ ss_rows[1].url = 1 /\ ss_rows[2].url = 1
    /\ ss_rows[1].title # ss_rows[2].title
    /\ Len(cv_rows) = 2 /\ cv_rows[1].url = 2 /\ cv_rows[2].url = 1
    /\ unique_rows = << ss_rows[1], cv_rows[1] >>

----------------------------------------------------------------------------
(* Properties of count_pages_for_category, under SpecCnt *)

\* A page that answers 200 and has more than 3 job rows.
GoodPage(answer) == answer.kind = "ok" /\ CntJobRows(answer) >= 4

\* The length of the longest prefix of good pages among those answered.
RECURSIVE GoodPrefix(_)
GoodPrefix(answers) ==
    IF answers = << >> \/ ~GoodPage(Head(answers)) THEN 0
    ELSE 1 + GoodPrefix(Tail(answers))

\* C35: the pages requested are 1..k in order with k <= max_pages, none
\* follows a page that is not good, and the count returned is the length of
\* the longest prefix of good pages.
C35_CountIsGoodPrefix ==
    /\ Len(cnt_answers) <= cnt_max_pages
    /\ \A i \in 1..(Len(cnt_answers) - 1) : GoodPage(cnt_answers[i])
    /\ cnt_pages_with_jobs = GoodPrefix(cnt_answers)
    /\ cnt_pages_with_jobs <= cnt_max_pages
    /\ pc = "cnt_returned" =>
          \/ cnt_pages_with_jobs = cnt_max_pages
          \/ /\ Len(cnt_answers) = cnt_pages_with_jobs + 1
             /\ ~GoodPage(cnt_answers[Len(cnt_answers)])

\* Two good pages, then a page with exactly 3 rows ends the count at 2.
C35_Witness ==
    /\ pc = "cnt_returned"
    /\ Len(cnt_answers) = 3
    /\ cnt_answers[3].kind = "ok"
    /\ cnt_answers[3].tr_rows = 3
    /\ cnt_pages_with_jobs = 2

----------------------------------------------------------------------------
(* Properties of the salary fields, under SpecSal *)

\* C36: in every record a site parser produces, salary_from, salary_to and
\* salary_currency are all set or all empty.
C36_SalaryAllOrNothing ==
    \/ /\ sal_record.salary_from = << >>
       /\ sal_record.salary_to = << >>
       /\ sal_record.salary_currency = ""
    \/ /\ sal_record.salary_from # << >>
       /\ sal_record.salary_to # << >>
       /\ sal_record.salary_currency # ""

\* The same, parser by parser.
SalVisiDarbiAllOrNothing ==
    sal_input.parser = "visidarbi" => C36_SalaryAllOrNothing
SalCvAllOrNothing == sal_input.parser = "cv" => C36_SalaryAllOrNothing
SalLikeAllOrNothing == sal_input.parser = "likeit" => C36_SalaryAllOrNothing

\* What does hold: a currency is set only with a lower or an upper salary, and
\* VisiDarbi and cv.lv set it whenever either is set.
SalCurrencyNeedsAmount ==
    sal_record.salary_currency # "" =>
        sal_record.salary_from # << >> \/ sal_record.salary_to # << >>
SalAmountHasCurrency ==
    /\ sal_input.parser \in { "visidarbi", "cv" }
    /\ sal_record.salary_from # << >> \/ sal_record.salary_to # << >>
    => sal_record.salary_currency = "EUR"

============================================================================
